---- MODULE Spec2Model ----
(***************************************************************************)
(* A model of the entsoe crate's day-ahead price decoder                   *)
(* (src/parser/price_parser.rs, parse_day_ahead_prices) and of the         *)
(* windowed-extremum analyzer of the entsoe-ascii binary                   *)
(* (find_cheapest_consecutive_hours, find_expensivest_consecutive_hours).  *)
(*                                                                         *)
(* The decoder is a loop over the events of a quick_xml Reader.  One       *)
(* action models one arm of the `match reader.read_event_into(..)`: the    *)
(* reader offers an event (the document is chosen as it is read) and the   *)
(* arm updates the decoder's locals.  The Eof arm leaves the loop, so its  *)
(* action includes the whole finalization (lines 144-176).                 *)
(*                                                                         *)
(* Instants are minutes since 2024-01-15T00:00:00Z.  An Option<T> is a     *)
(* sequence: None is << >>, Some(v) is <<v>>.                              *)
(***************************************************************************)
EXTENDS Integers, Sequences, FiniteSets, TLC

VARIABLES
    stack,                \* the reader's open elements (quick_xml checks end names)
    readerState,          \* the reader: "open", "eof" (input exhausted) or "error"
    currency, resolution, period_start, period_end, all_points,
    in_time_series, in_period, in_point, in_time_interval,
    current_period_start, current_position, current_price,
    current_tag,
    pc,                   \* "scan": inside the loop; "done": the function returned
    result,               \* the value parse_day_ahead_prices returned
    period_anchor,        \* the document: the start instant read in the open Period
    watched,              \* which part of the document the record below is kept of
    seen_currencies,      \* the document: the currency texts read in a TimeSeries
    seen_resolutions,     \* the document: the resolution texts read in a Period
    seen_starts,          \* the document: the start instants read so far
    seen_ends,            \* the document: the end instants read so far
    point_position,       \* the document: the position read in the open Point
    point_price,          \* the document: the price read in the open Point
    complete_points,      \* the document: the samples of the complete Points closed
    dropped_point,        \* the document: an incomplete Point has been closed
    open_periods,         \* the document: the start instants read in each open Period
    remaining,            \* the events the buffer still holds at most, None if unknown
    buffers,              \* concurrent calls: the buffer each call decodes
    edits,                \* how the buffer of each call differs from the document named
    active,               \* concurrent calls: the call whose locals the variables hold
    parked,               \* concurrent calls: the locals of the calls not running
    pos,                  \* concurrent calls: the next event of the active call's buffer
    periods, n,           \* the analyzer's arguments
    call,                 \* the analyzer function called, "none" before the call
    an_pc,                \* "idle", "loop" (before the iteration i) or "returned"
    i, current_sum,       \* the analyzer's loop index and running sum
    best_sum, best_index, \* min_sum/min_index or max_sum/max_index
    an_result,            \* the Option<(usize, Decimal)> returned
    calls_made,           \* the analyzer calls the caller has made before this one
    client,               \* a call of EntsoeClient: where it is and what it has done
    table,                \* the rows of the prices table
    last_stored,          \* the zone and the document of the last store_prices call
    store_result,         \* what the last store_prices call returned
    library,              \* a call of a function of the library: which, on what, its value
    fetch                 \* the zone loop of entsoe-fetch: its locals and what it has done

parserVars == <<stack, readerState, currency, resolution, period_start, period_end,
                all_points, in_time_series, in_period, in_point, in_time_interval,
                current_period_start, current_position, current_price,
                current_tag, pc, result, period_anchor,
                watched, seen_currencies, seen_resolutions, seen_starts, seen_ends,
                point_position, point_price, complete_points, dropped_point,
                open_periods, remaining, buffers, edits,
                active, parked, pos>>

analyzerVars == <<periods, n, call, an_pc, i, current_sum, best_sum, best_index,
                  an_result, calls_made>>

\* the client, the store and the functions of the library
outsideVars == <<client, table, last_stored, store_result, library, fetch>>

vars == <<parserVars, analyzerVars, outsideVars>>

----------------------------------------------------------------------------
(* Bounds of the model *)

\* most samples accumulated in all_points
MaxPoints == 2
\* longest price sequence given to the analyzer
MaxLen == 4
\* most analyzer calls a caller makes after its first
MaxCalls == 2
\* most events of a buffer whose length is given
MaxEvents == 26
\* latest instant given to the client
MaxTime == 3
\* most samples of a stored document
MaxRows == 2
\* most samples accumulated when the record of the document is kept
MaxTraced == 2
\* most elements open at a time in a document whose elements nest freely
MaxDepth == 5

\* the zones of a list the loop of entsoe-fetch is given, at most
MaxZones == 2

----------------------------------------------------------------------------
(* Option values *)

None == << >>
Some(v) == <<v>>
IsSome(o) == o # << >>
Unwrap(o) == o[1]

----------------------------------------------------------------------------
(* Document Model: Resolution (src/models/price.rs) *)

\* a slip: the code taken in lower case too
ResolutionParseAnyCase(s) ==
    CASE s \in {"PT15M", "pt15m"} -> Some("PT15M")
      [] s \in {"PT60M", "pt60m"} -> Some("PT60M")
      [] OTHER -> None

\* Resolution::parse: exactly two recognized codes
ResolutionParse(s) ==
    CASE s = "PT15M" -> Some("PT15M")
      [] s = "PT60M" -> Some("PT60M")
      [] OTHER -> None

\* Resolution::minutes
ResolutionMinutes(r) == IF r = "PT15M" THEN 15 ELSE 60

----------------------------------------------------------------------------
(* Text of a text event.  A text is a record: what it looks like (kind) and *)
(* what the conversions read in it.                                         *)
(*   blank    only whitespace                                               *)
(*   badutf8  bytes that are not UTF-8                                      *)
(*   word     letters, str                                                  *)
(*   num      a decimal numeral of the integer num                          *)
(*   instant  YYYY-MM-DDTHH:MM[:SS]<tz>, min minutes after the epoch in    *)
(*            local time, secs: has the :SS field, tz: offset in minutes,   *)
(*            written "Z" when zulu, "+HH:MM" otherwise                     *)

Txt(kind, str, num, secs, tz, zulu) ==
    [kind |-> kind, str |-> str, num |-> num, secs |-> secs, tz |-> tz, zulu |-> zulu]

Blank == Txt("blank", "", 0, FALSE, 0, FALSE)
BadUtf8 == Txt("badutf8", "", 0, FALSE, 0, FALSE)
Word(s) == Txt("word", s, 0, FALSE, 0, FALSE)
Num(v) == Txt("num", "", v, FALSE, 0, FALSE)
Instant(m, secs, tz, zulu) == Txt("instant", "", m, secs, tz, zulu)

\* std::str::from_utf8(&e) (line 71)
FromUtf8Ok(t) == t.kind # "badutf8"

\* text.trim().is_empty() (lines 73-75)
IsEmptyAfterTrim(t) == t.kind = "blank"

\* text.matches(':').count(): HH:MM has one, :SS one more, +HH:MM one more
ColonCount(t) ==
    IF t.kind # "instant" THEN 0
    ELSE 1 + (IF t.secs THEN 1 ELSE 0) + (IF t.zulu THEN 0 ELSE 1)

\* lines 91-96 and 108-113: with at most one ':' the text has its trailing 'Z's
\* trimmed and ":00" and "Z" appended; otherwise it is taken as it is
TextWithSeconds(t) ==
    IF ColonCount(t) <= 1
    THEN IF t.kind = "instant" /\ t.zulu THEN [t EXCEPT !.secs = TRUE] ELSE Word("garbled")
    ELSE t

\* DateTime::parse_from_rfc3339(..).ok().map(|dt| dt.with_timezone(&Utc)):
\* RFC 3339 requires the seconds field; the UTC instant is local time minus offset
ParseRfc3339Utc(t) ==
    IF t.kind = "instant" /\ t.secs THEN Some(t.num - t.tz) ELSE None

\* the instant a <start> or <end> text yields (lines 91-99, 108-116)
ParseInstantText(t) == ParseRfc3339Utc(TextWithSeconds(t))

\* text.parse::<u32>().ok() (line 124): a numeral without a sign (the numerals
\* offered are far below u32::MAX)
ParseU32(t) ==
    IF t.kind = "num" /\ t.num >= 0 THEN Some(t.num) ELSE None

\* text.parse::<f64>().ok() (line 127)
ParseF64(t) == IF t.kind = "num" THEN Some(t.num) ELSE None

----------------------------------------------------------------------------
(* The inputs the reader is offered *)

Names == {"TimeSeries", "Period", "Point", "timeInterval", "currency_Unit.name",
          "resolution", "start", "end", "position", "price.amount", "other"}

InstantTexts == {Instant(0, TRUE, 0, TRUE), Instant(60, TRUE, 0, TRUE),
                 Instant(60, FALSE, 0, TRUE), Instant(120, TRUE, 60, FALSE),
                 Instant(60, FALSE, 60, FALSE)}

\* the texts offered inside an element of the given name ("" after an end tag)
TextsFor(tag) ==
    {Blank, BadUtf8} \cup
    CASE tag = "currency_Unit.name" -> {Word("EUR"), Word("SEK")}
      [] tag = "resolution" -> {Word("PT15M"), Word("PT60M"), Word("PT30M")}
      [] tag \in {"start", "end"} -> InstantTexts
      [] tag = "position" -> {Num(1), Num(2), Num(-1), Word("x")}
      [] tag = "price.amount" -> {Num(1), Word("x")}
      [] OTHER -> {Word("x")}

----------------------------------------------------------------------------
(* Results *)

Running == [kind |-> "Running", detail |-> "", doc |-> None]
Err(kind, detail) == [kind |-> kind, detail |-> detail, doc |-> None]
Ok(doc) == [kind |-> "Ok", detail |-> "", doc |-> Some(doc)]

----------------------------------------------------------------------------
(* Finalization (lines 144-177) *)

\* a slip: the ordinal taken as an offset from 0
TimestampFromZero(start, position, res) == start + position * ResolutionMinutes(res)

\* lines 162-163
Timestamp(start, position, res) == start + (position - 1) * ResolutionMinutes(res)

\* lines 159-166: one PricePoint per accumulated sample, in accumulation order
RECURSIVE MapPoints(_, _)
MapPoints(points, res) ==
    IF points = << >> THEN << >>
    ELSE <<[timestamp |-> Timestamp(points[1].start, points[1].position, res),
            price |-> points[1].price]>> \o MapPoints(Tail(points), res)

\* p placed after every element whose key is not greater: a stable insertion
RECURSIVE InsertByKey(_, _)
InsertByKey(sorted, p) ==
    IF sorted = << >> THEN <<p>>
    ELSE IF sorted[1].timestamp <= p.timestamp
         THEN <<sorted[1]>> \o InsertByKey(Tail(sorted), p)
         ELSE <<p>> \o sorted

\* a slip: the samples left in accumulation order
SortByKeyOmitted(ps) == ps

\* line 168: prices.sort_by_key(|p| p.timestamp), a stable sort
RECURSIVE SortByKey(_)
SortByKey(ps) ==
    IF ps = << >> THEN << >>
    ELSE InsertByKey(SortByKey(SubSeq(ps, 1, Len(ps) - 1)), ps[Len(ps)])

\* a slip: the sample list checked before the summary fields
FinalizeEmptyFirst ==
    IF all_points = << >> THEN Err("XmlParseError", "No price points found")
    ELSE IF currency = None THEN Err("MissingField", "currency_Unit.name")
    ELSE IF resolution = None THEN Err("MissingField", "resolution")
    ELSE IF period_start = None THEN Err("MissingField", "period start")
    ELSE IF period_end = None THEN Err("MissingField", "period end")
    ELSE Ok([currency |-> Unwrap(currency),
             resolution |-> Unwrap(resolution),
             period_start |-> Unwrap(period_start),
             period_end |-> Unwrap(period_end),
             prices |-> SortByKey(MapPoints(all_points, Unwrap(resolution)))])

\* a slip: an empty sample list reported as a missing field
FinalizeEmptyAsMissing ==
    IF currency = None THEN Err("MissingField", "currency_Unit.name")
    ELSE IF resolution = None THEN Err("MissingField", "resolution")
    ELSE IF period_start = None THEN Err("MissingField", "period start")
    ELSE IF period_end = None THEN Err("MissingField", "period end")
    ELSE IF all_points = << >> THEN Err("MissingField", "Point")
    ELSE Ok([currency |-> Unwrap(currency),
             resolution |-> Unwrap(resolution),
             period_start |-> Unwrap(period_start),
             period_end |-> Unwrap(period_end),
             prices |-> SortByKey(MapPoints(all_points, Unwrap(resolution)))])

\* a slip: no check of the sample list
FinalizeNoEmptyCheck ==
    IF currency = None THEN Err("MissingField", "currency_Unit.name")
    ELSE IF resolution = None THEN Err("MissingField", "resolution")
    ELSE IF period_start = None THEN Err("MissingField", "period start")
    ELSE IF period_end = None THEN Err("MissingField", "period end")
    ELSE Ok([currency |-> Unwrap(currency),
             resolution |-> Unwrap(resolution),
             period_start |-> Unwrap(period_start),
             period_end |-> Unwrap(period_end),
             prices |-> SortByKey(MapPoints(all_points, Unwrap(resolution)))])

\* lines 144-176
Finalize ==
    IF currency = None THEN Err("MissingField", "currency_Unit.name")
    ELSE IF resolution = None THEN Err("MissingField", "resolution")
    ELSE IF period_start = None THEN Err("MissingField", "period start")
    ELSE IF period_end = None THEN Err("MissingField", "period end")
    ELSE IF all_points = << >> THEN Err("XmlParseError", "No price points found")
    ELSE Ok([currency |-> Unwrap(currency),
             resolution |-> Unwrap(resolution),
             period_start |-> Unwrap(period_start),
             period_end |-> Unwrap(period_end),
             prices |-> SortByKey(MapPoints(all_points, Unwrap(resolution)))])

----------------------------------------------------------------------------
(* The event loop (lines 30-142) *)

flags == <<in_time_series, in_period, in_point, in_time_interval>>
summary == <<currency, resolution, period_start, period_end>>
point == <<current_position, current_price>>

\* lines 12-28: the locals as declared
LocalsInit ==
    /\ currency = None
    /\ resolution = None
    /\ period_start = None
    /\ period_end = None
    /\ all_points = << >>
    /\ in_time_series = FALSE
    /\ in_period = FALSE
    /\ in_point = FALSE
    /\ in_time_interval = FALSE
    /\ current_period_start = None
    /\ current_position = None
    /\ current_price = None
    /\ current_tag = ""

\* a return: the result is handed out and the locals go out of scope (the model
\* gives them their declared values again)
Return(r) ==
    /\ pc' = "done"
    /\ result' = r
    /\ currency' = None
    /\ resolution' = None
    /\ period_start' = None
    /\ period_end' = None
    /\ all_points' = << >>
    /\ in_time_series' = FALSE
    /\ in_period' = FALSE
    /\ in_point' = FALSE
    /\ in_time_interval' = FALSE
    /\ current_period_start' = None
    /\ current_position' = None
    /\ current_price' = None
    /\ current_tag' = ""

\* a slip: a Point taken wherever it stands
HandleStartPointAnywhere(name) ==
    /\ current_tag' = name
    /\ in_time_series' = (in_time_series \/ name = "TimeSeries")
    /\ in_period' = (in_period \/ (name = "Period" /\ in_time_series))
    /\ current_period_start' =
           IF name = "Period" /\ in_time_series THEN None ELSE current_period_start
    /\ in_point' = (in_point \/ name = "Point")
    /\ in_time_interval' = (in_time_interval \/ (name = "timeInterval" /\ in_period))
    /\ UNCHANGED <<summary, all_points, point, pc, result>>

\* lines 32-46: Ok(Event::Start(e))
HandleStart(name) ==
    /\ current_tag' = name
    /\ in_time_series' = (in_time_series \/ name = "TimeSeries")
    /\ in_period' = (in_period \/ (name = "Period" /\ in_time_series))
    /\ current_period_start' =
           IF name = "Period" /\ in_time_series THEN None ELSE current_period_start
    /\ in_point' = (in_point \/ (name = "Point" /\ in_period))
    /\ in_time_interval' = (in_time_interval \/ (name = "timeInterval" /\ in_period))
    /\ UNCHANGED <<summary, all_points, point, pc, result>>

\* a slip: a Point closed without an anchor taken with the anchor 0
PushPointNoAnchor ==
    IF IsSome(current_position) /\ IsSome(current_price)
    THEN Append(all_points, [start |-> IF IsSome(current_period_start)
                                       THEN Unwrap(current_period_start) ELSE 0,
                             position |-> Unwrap(current_position),
                             price |-> Unwrap(current_price)])
    ELSE all_points

\* lines 55-60: the sample of a closing Point, if it is complete
PushPoint ==
    IF IsSome(current_position) /\ IsSome(current_price) /\ IsSome(current_period_start)
    THEN Append(all_points, [start |-> Unwrap(current_period_start),
                             position |-> Unwrap(current_position),
                             price |-> Unwrap(current_price)])
    ELSE all_points

\* lines 47-69: Ok(Event::End(e))
HandleEnd(name) ==
    /\ in_time_series' = (in_time_series /\ name # "TimeSeries")
    /\ in_period' = (in_period /\ name # "Period")
    /\ in_time_interval' = (in_time_interval /\ name \notin {"Period", "timeInterval"})
    /\ in_point' = (in_point /\ name # "Point")
    /\ all_points' = IF name = "Point" THEN PushPoint ELSE all_points
    /\ current_position' = IF name = "Point" THEN None ELSE current_position
    /\ current_price' = IF name = "Point" THEN None ELSE current_price
    /\ current_tag' = ""
    /\ UNCHANGED <<summary, current_period_start, pc, result>>

\* a slip: the comparison of the start instants reversed
MinStartReversed(dt) ==
    IF IsSome(dt) /\ (period_start = None \/ Unwrap(period_start) < Unwrap(dt))
    THEN dt ELSE period_start

\* lines 101-105: the running minimum of the start instants
MinStart(dt) ==
    IF IsSome(dt) /\ (period_start = None \/ Unwrap(period_start) > Unwrap(dt))
    THEN dt ELSE period_start

\* lines 117-121: the running maximum of the end instants
MaxEnd(dt) ==
    IF IsSome(dt) /\ (period_end = None \/ Unwrap(period_end) < Unwrap(dt))
    THEN dt ELSE period_end

\* a slip: every currency text in a TimeSeries taken, the last one staying
HandleTagLastCurrency(t) ==
    /\ currency' =
           IF current_tag = "currency_Unit.name" /\ in_time_series
           THEN Some(t.str) ELSE currency
    /\ resolution' =
           IF current_tag = "resolution" /\ in_period /\ resolution = None
           THEN ResolutionParse(t.str) ELSE resolution
    /\ current_period_start' =
           IF current_tag = "start" /\ in_time_interval /\ in_period
           THEN ParseInstantText(t) ELSE current_period_start
    /\ period_start' =
           IF current_tag = "start" /\ in_time_interval /\ in_period
           THEN MinStart(ParseInstantText(t)) ELSE period_start
    /\ period_end' =
           IF current_tag = "end" /\ in_time_interval /\ in_period
           THEN MaxEnd(ParseInstantText(t)) ELSE period_end
    /\ current_position' =
           IF current_tag = "position" /\ in_point THEN ParseU32(t) ELSE current_position
    /\ current_price' =
           IF current_tag = "price.amount" /\ in_point THEN ParseF64(t) ELSE current_price
    /\ UNCHANGED <<flags, all_points, current_tag, pc, result>>

\* a slip: every resolution text in a Period parsed, the last one staying
HandleTagLastResolution(t) ==
    /\ currency' =
           IF current_tag = "currency_Unit.name" /\ in_time_series /\ currency = None
           THEN Some(t.str) ELSE currency
    /\ resolution' =
           IF current_tag = "resolution" /\ in_period
           THEN ResolutionParse(t.str) ELSE resolution
    /\ current_period_start' =
           IF current_tag = "start" /\ in_time_interval /\ in_period
           THEN ParseInstantText(t) ELSE current_period_start
    /\ period_start' =
           IF current_tag = "start" /\ in_time_interval /\ in_period
           THEN MinStart(ParseInstantText(t)) ELSE period_start
    /\ period_end' =
           IF current_tag = "end" /\ in_time_interval /\ in_period
           THEN MaxEnd(ParseInstantText(t)) ELSE period_end
    /\ current_position' =
           IF current_tag = "position" /\ in_point THEN ParseU32(t) ELSE current_position
    /\ current_price' =
           IF current_tag = "price.amount" /\ in_point THEN ParseF64(t) ELSE current_price
    /\ UNCHANGED <<flags, all_points, current_tag, pc, result>>

\* lines 79-130: the match on current_tag, for a text that is not empty
HandleTag(t) ==
    /\ currency' =
           IF current_tag = "currency_Unit.name" /\ in_time_series /\ currency = None
           THEN Some(t.str) ELSE currency
    /\ resolution' =
           IF current_tag = "resolution" /\ in_period /\ resolution = None
           THEN ResolutionParse(t.str) ELSE resolution
    /\ current_period_start' =
           IF current_tag = "start" /\ in_time_interval /\ in_period
           THEN ParseInstantText(t) ELSE current_period_start
    /\ period_start' =
           IF current_tag = "start" /\ in_time_interval /\ in_period
           THEN MinStart(ParseInstantText(t)) ELSE period_start
    /\ period_end' =
           IF current_tag = "end" /\ in_time_interval /\ in_period
           THEN MaxEnd(ParseInstantText(t)) ELSE period_end
    /\ current_position' =
           IF current_tag = "position" /\ in_point THEN ParseU32(t) ELSE current_position
    /\ current_price' =
           IF current_tag = "price.amount" /\ in_point THEN ParseF64(t) ELSE current_price
    /\ UNCHANGED <<flags, all_points, current_tag, pc, result>>

\* lines 70-131: Ok(Event::Text(e))
HandleText(t) ==
    IF ~FromUtf8Ok(t) THEN Return(Err("XmlParseError", "Invalid UTF-8"))
    ELSE IF IsEmptyAfterTrim(t)
    THEN UNCHANGED <<summary, flags, all_points, current_period_start, point,
                     current_tag, pc, result>>
    ELSE HandleTag(t)

\* a slip: the end of the input does not leave the loop
HandleEofStays ==
    UNCHANGED <<summary, flags, all_points, current_period_start, point,
                current_tag, pc, result>>

\* line 132 and lines 144-177: Ok(Event::Eof) leaves the loop and finalizes
HandleEof == Return(Finalize)

\* a slip: a reader error treated like the end of the input
HandleErrAsEof == Return(Finalize)

\* lines 133-138: Err(e)
HandleErr == Return(Err("XmlParseError", "XML parsing error"))

\* line 139: any other event (an empty-element tag, a comment, a declaration,
\* a CDATA section, a processing instruction, a doctype)
HandleOther ==
    UNCHANGED <<summary, flags, all_points, current_period_start, point,
                current_tag, pc, result>>

----------------------------------------------------------------------------
(* The reader: which event read_event_into delivers next *)

Top(s) == s[Len(s)]

\* the sample list stays within the bound
RoomForPoint == Len(PushPoint) <= MaxPoints

\* the child elements offered inside an element ("" is the document level): the
\* nesting of the document format, and beside it a Period, a Point and a currency
\* outside a TimeSeries, a Point outside a Period and a start outside a timeInterval
Children(parent) ==
    CASE parent = "" -> {"TimeSeries", "other", "Period", "Point", "currency_Unit.name"}
      [] parent = "TimeSeries" -> {"currency_Unit.name", "Period", "other", "Point"}
      [] parent = "Period" -> {"resolution", "timeInterval", "Point", "other", "start"}
      [] parent = "timeInterval" -> {"start", "end"}
      [] parent = "Point" -> {"position", "price.amount"}
      [] OTHER -> {}

\* the start tags offered next
Offered == Children(IF stack = << >> THEN "" ELSE Top(stack))

\* the text is the content of a <start> directly in a Period's timeInterval
InPeriodStart ==
    /\ Len(stack) >= 3
    /\ SubSeq(stack, Len(stack) - 2, Len(stack)) = <<"Period", "timeInterval", "start">>

\* the variables of concurrent calls
callVars == <<buffers, edits, active, parked, pos>>

\* read_event_into takes an event off the buffer: the reader is not at the end,
\* and of a buffer of given length one event less remains
Consume ==
    /\ readerState = "open"
    /\ IF remaining = None THEN remaining' = remaining
       ELSE Unwrap(remaining) > 0 /\ remaining' = Some(Unwrap(remaining) - 1)

\* what the document has shown so far, apart from the anchor
observed == <<watched, seen_currencies, seen_resolutions, seen_starts, seen_ends,
              point_position, point_price, complete_points, dropped_point,
              open_periods>>

\* a start tag <name>
StartEvent ==
    \E name \in Offered :
        /\ pc = "scan"
        /\ Consume
        /\ stack' = Append(stack, name)
        /\ period_anchor' = IF name = "Period" THEN None ELSE period_anchor
        /\ HandleStart(name)
        /\ UNCHANGED <<readerState, observed, callVars, analyzerVars, outsideVars>>

\* an end tag; the reader accepts only the name of the innermost open element
EndEvent ==
    /\ pc = "scan"
    /\ Consume
    /\ stack # << >>
    /\ Top(stack) = "Point" => RoomForPoint
    /\ stack' = SubSeq(stack, 1, Len(stack) - 1)
    /\ HandleEnd(Top(stack))
    /\ UNCHANGED <<readerState, period_anchor, observed, callVars, analyzerVars, outsideVars>>

\* a text node
TextEvent ==
    \E t \in TextsFor(current_tag) :
        /\ pc = "scan"
        /\ Consume
        /\ period_anchor' =
               IF InPeriodStart /\ t.kind \notin {"blank", "badutf8"}
               THEN ParseInstantText(t) ELSE period_anchor
        /\ HandleText(t)
        /\ UNCHANGED <<stack, readerState, observed, callVars, analyzerVars, outsideVars>>

\* the end of the buffer; read_event_into reports it whether or not elements
\* are still open
EofEvent ==
    /\ pc = "scan"
    /\ readerState' = "eof"
    /\ HandleEof
    /\ UNCHANGED <<stack, period_anchor, observed, remaining, callVars, analyzerVars, outsideVars>>

\* the reader finds the bytes malformed (a mismatched end tag, a broken tag, ...)
ErrEvent ==
    /\ pc = "scan"
    /\ readerState = "open"
    /\ readerState' = "error"
    /\ HandleErr
    /\ UNCHANGED <<stack, period_anchor, observed, remaining, callVars, analyzerVars, outsideVars>>

\* an event the loop has no arm for
OtherEvent ==
    /\ pc = "scan"
    /\ Consume
    /\ HandleOther
    /\ UNCHANGED <<stack, readerState, period_anchor, observed, callVars, analyzerVars, outsideVars>>

----------------------------------------------------------------------------
(* The same reader with a record of what the document has shown.  The       *)
(* record is kept from the open elements (stack) and the texts, never from  *)
(* the decoder's flags.                                                      *)

\* the record is kept of this part, and the open elements are exactly these,
\* outermost first
Inside(part, path) == watched = part /\ stack = path

\* s with x appended unless s holds it already
Noted(s, x) == IF \E k \in 1..Len(s) : s[k] = x THEN s ELSE Append(s, x)

\* the instants a set gains from an Option
Seen(set, o) == IF IsSome(o) THEN set \cup {Unwrap(o)} ELSE set

\* a text with content is read: what the document has shown after it
Observe(t) ==
    /\ seen_currencies' =
           IF Inside("currency", <<"TimeSeries", "currency_Unit.name">>)
           THEN Noted(seen_currencies, t.str) ELSE seen_currencies
    /\ seen_resolutions' =
           IF Inside("resolution", <<"TimeSeries", "Period", "resolution">>)
           THEN Noted(seen_resolutions, t.str) ELSE seen_resolutions
    /\ seen_starts' =
           IF Inside("interval", <<"TimeSeries", "Period", "timeInterval", "start">>)
           THEN Seen(seen_starts, ParseInstantText(t)) ELSE seen_starts
    /\ seen_ends' =
           IF Inside("interval", <<"TimeSeries", "Period", "timeInterval", "end">>)
           THEN Seen(seen_ends, ParseInstantText(t)) ELSE seen_ends
    /\ point_position' =
           IF Inside("points", <<"TimeSeries", "Period", "Point", "position">>)
           THEN ParseU32(t) ELSE point_position
    /\ point_price' =
           IF Inside("points", <<"TimeSeries", "Period", "Point", "price.amount">>)
           THEN ParseF64(t) ELSE point_price

\* the open Point has a position, a price and an anchor
PointComplete == IsSome(point_position) /\ IsSome(point_price) /\ IsSome(period_anchor)

\* a Point of a Period of a TimeSeries is closed: what the document has shown
ObservePoint ==
    /\ complete_points' =
           IF PointComplete
           THEN Append(complete_points, [start |-> Unwrap(period_anchor),
                                         position |-> Unwrap(point_position),
                                         price |-> Unwrap(point_price)])
           ELSE complete_points
    /\ dropped_point' = (dropped_point \/ ~PointComplete)
    /\ point_position' = None
    /\ point_price' = None

\* the part of the document an element's text belongs to; the start instant
\* belongs to the Points as well, as their anchor
PartsOf(tag) ==
    CASE tag = "currency_Unit.name" -> {"currency"}
      [] tag = "resolution" -> {"resolution"}
      [] tag = "start" -> {"interval", "points"}
      [] tag = "end" -> {"interval"}
      [] tag \in {"position", "price.amount"} -> {"points"}
      [] OTHER -> {}

\* one well-formed text of an element of the given name
Plain(tag) ==
    CASE tag = "currency_Unit.name" -> Word("EUR")
      [] tag = "resolution" -> Word("PT60M")
      [] tag = "start" -> Instant(0, TRUE, 0, TRUE)
      [] tag = "end" -> Instant(60, TRUE, 0, TRUE)
      [] tag \in {"position", "price.amount"} -> Num(1)
      [] OTHER -> Word("x")

\* the texts offered when the record is kept: all of them in the watched part,
\* elsewhere a blank one, an undecodable one and a well-formed one
TracedTextsFor(tag) ==
    IF watched \in PartsOf(tag) THEN TextsFor(tag) ELSE {Blank, BadUtf8, Plain(tag)}

\* an end tag, with the record kept
TracedEndEvent ==
    /\ pc = "scan"
    /\ Consume
    /\ stack # << >>
    /\ Top(stack) = "Point" => Len(PushPoint) <= MaxTraced
    /\ stack' = SubSeq(stack, 1, Len(stack) - 1)
    /\ HandleEnd(Top(stack))
    /\ IF Inside("points", <<"TimeSeries", "Period", "Point">>)
       THEN ObservePoint
       ELSE UNCHANGED <<point_position, point_price, complete_points, dropped_point>>
    /\ UNCHANGED <<readerState, period_anchor, watched, seen_currencies,
                   seen_resolutions, seen_starts, seen_ends, open_periods,
                   callVars, analyzerVars, outsideVars>>

\* a text node, with the record kept
TracedTextEvent ==
    \E t \in TracedTextsFor(current_tag) :
        /\ pc = "scan"
        /\ Consume
        /\ period_anchor' =
               IF InPeriodStart /\ t.kind \notin {"blank", "badutf8"}
               THEN ParseInstantText(t) ELSE period_anchor
        /\ IF t.kind \in {"blank", "badutf8"}
           THEN UNCHANGED <<seen_currencies, seen_resolutions, seen_starts, seen_ends,
                            point_position, point_price>>
           ELSE Observe(t)
        /\ HandleText(t)
        /\ UNCHANGED <<stack, readerState, watched, complete_points, dropped_point,
                       open_periods, callVars, analyzerVars, outsideVars>>

----------------------------------------------------------------------------
(* The reader on documents whose elements nest freely: any of the elements  *)
(* of the format inside any other, also inside itself, as well-formed XML   *)
(* allows.  The document-side record is, for each open Period, outermost    *)
(* first, the set of the start instants read in it.                         *)

\* the elements that hold elements
Containers == {"TimeSeries", "Period", "Point", "timeInterval"}

\* the elements that hold a text
Leaves == {"start", "position", "price.amount"}

\* the texts of a leaf
NestedTextsFor(tag) ==
    CASE tag = "start" -> {Instant(0, TRUE, 0, TRUE), Instant(60, TRUE, 0, TRUE), Word("x")}
      [] tag \in {"position", "price.amount"} -> {Num(1)}
      [] OTHER -> {}

\* s without its last element
Front(s) == SubSeq(s, 1, Len(s) - 1)

\* the innermost open element, "" at the document level
Innermost == IF stack = << >> THEN "" ELSE Top(stack)

\* a start tag of any element inside any container or at the document level
NestedStartEvent ==
    \E name \in Containers \cup Leaves :
        /\ pc = "scan"
        /\ Consume
        /\ Len(stack) < MaxDepth
        /\ Innermost \in Containers \cup {""}
        /\ stack' = Append(stack, name)
        /\ open_periods' = IF name = "Period" THEN Append(open_periods, {}) ELSE open_periods
        /\ HandleStart(name)
        /\ UNCHANGED <<readerState, period_anchor, watched, seen_currencies,
                       seen_resolutions, seen_starts, seen_ends, point_position,
                       point_price, complete_points, dropped_point,
                       callVars, analyzerVars, outsideVars>>

\* the end tag of the innermost open element
NestedEndEvent ==
    /\ pc = "scan"
    /\ Consume
    /\ stack # << >>
    /\ Top(stack) = "Point" => RoomForPoint
    /\ stack' = Front(stack)
    /\ open_periods' = IF Top(stack) = "Period" THEN Front(open_periods) ELSE open_periods
    /\ HandleEnd(Top(stack))
    /\ UNCHANGED <<readerState, period_anchor, watched, seen_currencies,
                   seen_resolutions, seen_starts, seen_ends, point_position,
                   point_price, complete_points, dropped_point,
                   callVars, analyzerVars, outsideVars>>

\* the text of the innermost open element, a leaf
NestedTextEvent ==
    \E t \in NestedTextsFor(Innermost) :
        /\ pc = "scan"
        /\ Consume
        /\ open_periods' =
               IF Innermost = "start" /\ open_periods # << >>
               THEN [open_periods EXCEPT ![Len(open_periods)] = Seen(@, ParseInstantText(t))]
               ELSE open_periods
        /\ HandleText(t)
        /\ UNCHANGED <<stack, readerState, period_anchor, watched, seen_currencies,
                       seen_resolutions, seen_starts, seen_ends, point_position,
                       point_price, complete_points, dropped_point,
                       callVars, analyzerVars, outsideVars>>

----------------------------------------------------------------------------
(* The reader on documents with elements out of place: the elements of the  *)
(* format where the format has them, and beside them a Period, a Point, a   *)
(* timeInterval, a currency, a start and an end where it does not.          *)

MisplacedChildren(parent) ==
    CASE parent = "" -> {"TimeSeries", "Period", "Point", "timeInterval",
                         "currency_Unit.name", "start", "end"}
      [] parent = "TimeSeries" -> {"currency_Unit.name", "Period", "Point",
                                   "timeInterval", "start"}
      [] parent = "Period" -> {"resolution", "timeInterval", "Point", "start", "end"}
      [] parent = "timeInterval" -> {"start", "end"}
      [] parent = "Point" -> {"position", "price.amount"}
      [] OTHER -> {}

\* the texts of an element
MisplacedTextsFor(tag) ==
    {Blank, BadUtf8} \cup
    CASE tag = "currency_Unit.name" -> {Word("EUR"), Word("SEK")}
      [] tag = "resolution" -> {Word("PT60M")}
      [] tag = "start" -> {Instant(0, TRUE, 0, TRUE), Instant(60, TRUE, 0, TRUE)}
      [] tag = "end" -> {Instant(60, TRUE, 0, TRUE), Instant(0, TRUE, 0, TRUE)}
      [] tag \in {"position", "price.amount"} -> {Num(1)}
      [] OTHER -> {}

\* a start tag, in place or out of place
MisplacedStartEvent ==
    \E name \in MisplacedChildren(Innermost) :
        /\ pc = "scan"
        /\ Consume
        /\ stack' = Append(stack, name)
        /\ period_anchor' = IF name = "Period" THEN None ELSE period_anchor
        /\ HandleStart(name)
        /\ UNCHANGED <<readerState, observed, callVars, analyzerVars, outsideVars>>

\* the text of the innermost open element
MisplacedTextEvent ==
    \E t \in MisplacedTextsFor(Innermost) :
        /\ pc = "scan"
        /\ Consume
        /\ period_anchor' =
               IF InPeriodStart /\ t.kind \notin {"blank", "badutf8"}
               THEN ParseInstantText(t) ELSE period_anchor
        /\ HandleText(t)
        /\ UNCHANGED <<stack, readerState, observed, callVars, analyzerVars, outsideVars>>

----------------------------------------------------------------------------
(* Concurrent calls of parse_day_ahead_prices, each on a buffer of its own. *)
(* Everything a call works on is declared inside the function (lines 9-28:  *)
(* the reader, the accumulators, the flags, the current_* values, buf), so  *)
(* a call that is not running keeps all of it; the variables of the decoder *)
(* hold the locals of the call that runs.                                   *)

Calls == {"a", "b"}

\* the events of a buffer
StartTag(name) == [type |-> "start", name |-> name, text |-> Blank]
EndTag(name) == [type |-> "end", name |-> name, text |-> Blank]
Text(t) == [type |-> "text", name |-> "", text |-> t]
Comment == [type |-> "other", name |-> "", text |-> Blank]
Malformed == [type |-> "malformed", name |-> "", text |-> Blank]

\* <name>text</name>
Element(name, t) == <<StartTag(name), Text(t), EndTag(name)>>

\* a document of one TimeSeries with one Period with one Point
PriceDoc(cur, res, from, to, position) ==
    <<StartTag("TimeSeries")>> \o Element("currency_Unit.name", Word(cur))
    \o <<StartTag("Period")>> \o Element("resolution", Word(res))
    \o <<StartTag("timeInterval")>> \o Element("start", from) \o Element("end", to)
    \o <<EndTag("timeInterval"), StartTag("Point")>>
    \o Element("position", Num(position)) \o Element("price.amount", Num(1))
    \o <<EndTag("Point"), EndTag("Period"), EndTag("TimeSeries")>>

\* a Period with one Point
PeriodGroup(res, from, to, position, price) ==
    <<StartTag("Period")>> \o Element("resolution", Word(res))
    \o <<StartTag("timeInterval")>> \o Element("start", from) \o Element("end", to)
    \o <<EndTag("timeInterval"), StartTag("Point")>>
    \o Element("position", Num(position)) \o Element("price.amount", Num(price))
    \o <<EndTag("Point"), EndTag("Period")>>

\* the buffers the calls are given
Documents ==
    [hourly |-> PriceDoc("EUR", "PT60M", Instant(0, TRUE, 0, TRUE),
                         Instant(60, TRUE, 0, TRUE), 1),
     quarterly |-> PriceDoc("SEK", "PT15M", Instant(60, FALSE, 0, TRUE),
                            Instant(120, TRUE, 60, FALSE), 2),
     broken |-> <<StartTag("TimeSeries")>> \o Element("currency_Unit.name", Word("SEK"))
                \o <<Comment, StartTag("Period"), Malformed>>,
     bare |-> <<StartTag("TimeSeries"), StartTag("Period")>>
              \o Element("resolution", Word("PT15M"))
              \o <<EndTag("Period"), EndTag("TimeSeries")>>,
     revised |-> <<StartTag("TimeSeries")>> \o Element("currency_Unit.name", Word("EUR"))
                 \o PeriodGroup("PT60M", Instant(60, TRUE, 0, TRUE),
                                Instant(120, TRUE, 0, TRUE), 1, 2)
                 \o PeriodGroup("PT60M", Instant(0, TRUE, 0, TRUE),
                                Instant(60, TRUE, 0, TRUE), 1, 1)
                 \o <<EndTag("TimeSeries")>>,
     mixed |-> <<StartTag("TimeSeries")>> \o Element("currency_Unit.name", Word("EUR"))
               \o PeriodGroup("PT15M", Instant(0, TRUE, 0, TRUE),
                              Instant(60, TRUE, 0, TRUE), 2, 1)
               \o PeriodGroup("PT60M", Instant(60, TRUE, 0, TRUE),
                              Instant(120, TRUE, 0, TRUE), 2, 2)
               \o <<EndTag("TimeSeries")>>,
     late |-> <<StartTag("TimeSeries")>> \o Element("currency_Unit.name", Word("EUR"))
              \o <<StartTag("Period"), StartTag("timeInterval")>>
              \o Element("start", Instant(0, TRUE, 0, TRUE))
              \o Element("end", Instant(60, TRUE, 0, TRUE))
              \o <<EndTag("timeInterval"), StartTag("Point")>>
              \o Element("position", Num(2)) \o Element("price.amount", Num(1))
              \o <<EndTag("Point")>> \o Element("resolution", Word("PT15M"))
              \o <<EndTag("Period"), EndTag("TimeSeries")>>]

\* the buffer is the document as it is
NoEdit == [kind |-> "none", at |-> 0, what |-> << >>]

\* the buffer is the document with the events what put in after its first at events
Insert(at, what) == [kind |-> "insert", at |-> at, what |-> what]

\* the buffer is the document with its two Periods in the other order
Swap == [kind |-> "swap", at |-> 0, what |-> << >>]

\* where the events equal to ev stand in a document
PlacesOf(doc, ev) == {k \in 1..Len(doc) : doc[k] = ev}

Least(set) == CHOOSE x \in set : \A y \in set : x <= y
Greatest(set) == CHOOSE x \in set : \A y \in set : x >= y

\* a document of two Periods with the Periods in the other order, what stands
\* before, between and after them in place; any other document as it is
Swapped(doc) ==
    LET starts == PlacesOf(doc, StartTag("Period"))
        ends == PlacesOf(doc, EndTag("Period"))
    IN  IF Cardinality(starts) # 2 \/ Cardinality(ends) # 2 THEN doc
        ELSE SubSeq(doc, 1, Least(starts) - 1)
             \o SubSeq(doc, Greatest(starts), Greatest(ends))
             \o SubSeq(doc, Least(ends) + 1, Greatest(starts) - 1)
             \o SubSeq(doc, Least(starts), Least(ends))
             \o SubSeq(doc, Greatest(ends) + 1, Len(doc))

\* the events of a document as an edit leaves them
Edited(doc, edit) ==
    CASE edit.kind = "insert" ->
             SubSeq(doc, 1, edit.at) \o edit.what \o SubSeq(doc, edit.at + 1, Len(doc))
      [] edit.kind = "swap" -> Swapped(doc)
      [] OTHER -> doc

\* elements the decoder has no arm for: empty, with a text, with an attribute and
\* closed in its tag (the reader delivers Event::Empty), with a child
UnknownElements ==
    {<<StartTag("other"), EndTag("other")>>,
     <<StartTag("other"), Text(Word("x")), EndTag("other")>>,
     <<Comment>>,
     <<StartTag("other"), StartTag("other"), EndTag("other"), EndTag("other")>>}

\* the buffer of the call that runs
Buffer == Edited(Documents[buffers[active]], edits[active])

\* the locals of the call that runs
Context ==
    [currency |-> currency, resolution |-> resolution, period_start |-> period_start,
     period_end |-> period_end, all_points |-> all_points,
     in_time_series |-> in_time_series, in_period |-> in_period, in_point |-> in_point,
     in_time_interval |-> in_time_interval,
     current_period_start |-> current_period_start,
     current_position |-> current_position, current_price |-> current_price,
     current_tag |-> current_tag, readerState |-> readerState, pos |-> pos,
     pc |-> pc, result |-> result]

\* the locals of a call before its first event
Fresh ==
    [currency |-> None, resolution |-> None, period_start |-> None,
     period_end |-> None, all_points |-> << >>,
     in_time_series |-> FALSE, in_period |-> FALSE, in_point |-> FALSE,
     in_time_interval |-> FALSE,
     current_period_start |-> None,
     current_position |-> None, current_price |-> None,
     current_tag |-> "", readerState |-> "open", pos |-> 1,
     pc |-> "scan", result |-> Running]

\* a slip: current_tag kept in one place for all calls
ResumeSharedTag(ctx) ==
    /\ currency' = ctx.currency
    /\ resolution' = ctx.resolution
    /\ period_start' = ctx.period_start
    /\ period_end' = ctx.period_end
    /\ all_points' = ctx.all_points
    /\ in_time_series' = ctx.in_time_series
    /\ in_period' = ctx.in_period
    /\ in_point' = ctx.in_point
    /\ in_time_interval' = ctx.in_time_interval
    /\ current_period_start' = ctx.current_period_start
    /\ current_position' = ctx.current_position
    /\ current_price' = ctx.current_price
    /\ current_tag' = current_tag
    /\ readerState' = ctx.readerState
    /\ pos' = ctx.pos
    /\ pc' = ctx.pc
    /\ result' = ctx.result

\* a call goes on running with the locals it had
Resume(ctx) ==
    /\ currency' = ctx.currency
    /\ resolution' = ctx.resolution
    /\ period_start' = ctx.period_start
    /\ period_end' = ctx.period_end
    /\ all_points' = ctx.all_points
    /\ in_time_series' = ctx.in_time_series
    /\ in_period' = ctx.in_period
    /\ in_point' = ctx.in_point
    /\ in_time_interval' = ctx.in_time_interval
    /\ current_period_start' = ctx.current_period_start
    /\ current_position' = ctx.current_position
    /\ current_price' = ctx.current_price
    /\ current_tag' = ctx.current_tag
    /\ readerState' = ctx.readerState
    /\ pos' = ctx.pos
    /\ pc' = ctx.pc
    /\ result' = ctx.result

\* what a step of the running call leaves alone
elsewhere == <<stack, period_anchor, observed, remaining, buffers, edits, active, parked,
               analyzerVars, outsideVars>>

\* the scheduler takes the running call off and lets another call run
Switch ==
    \E c \in Calls \ {active} :
        /\ active' = c
        /\ parked' = [parked EXCEPT ![active] = Context, ![c] = Fresh]
        /\ Resume(parked[c])
        /\ UNCHANGED <<stack, period_anchor, observed, remaining, buffers, edits,
                       analyzerVars, outsideVars>>

\* the running call's reader has an event of this type next
NextIs(type) == pc = "scan" /\ pos <= Len(Buffer) /\ Buffer[pos].type = type

DeliverStart ==
    /\ NextIs("start")
    /\ HandleStart(Buffer[pos].name)
    /\ pos' = pos + 1
    /\ UNCHANGED <<readerState, elsewhere>>

DeliverEnd ==
    /\ NextIs("end")
    /\ HandleEnd(Buffer[pos].name)
    /\ pos' = pos + 1
    /\ UNCHANGED <<readerState, elsewhere>>

DeliverText ==
    /\ NextIs("text")
    /\ HandleText(Buffer[pos].text)
    /\ pos' = pos + 1
    /\ UNCHANGED <<readerState, elsewhere>>

DeliverOther ==
    /\ NextIs("other")
    /\ HandleOther
    /\ pos' = pos + 1
    /\ UNCHANGED <<readerState, elsewhere>>

DeliverErr ==
    /\ NextIs("malformed")
    /\ readerState' = "error"
    /\ HandleErr
    /\ pos' = pos + 1
    /\ UNCHANGED elsewhere

\* the buffer is exhausted
DeliverEof ==
    /\ pc = "scan"
    /\ pos > Len(Buffer)
    /\ readerState' = "eof"
    /\ HandleEof
    /\ UNCHANGED <<pos, elsewhere>>

----------------------------------------------------------------------------
(* Windowed Extremum Analyzer (src/bin/entsoe-ascii.rs, lines 79-131)       *)
(* periods is the sequence of the prices of the Period values (the          *)
(* functions read no other field); a Decimal is exact, here an integer.     *)
(* Indices are the source's, from 0: Price(k) is periods[k].price.          *)

Price(k) == periods[k + 1]

\* periods.iter().skip(from).take(count).map(|period| period.price).sum()
RECURSIVE SumTake(_, _)
SumTake(from, count) ==
    IF count = 0 \/ from >= Len(periods) THEN 0
    ELSE Price(from) + SumTake(from + 1, count - 1)

\* the values the analyzer's locals have outside a call
AnalyzerIdle ==
    /\ i = 0
    /\ current_sum = 0
    /\ best_sum = 0
    /\ best_index = 0
    /\ an_result = None
    /\ calls_made = 0

\* a return of the analyzer: its locals go out of scope
AnalyzerReturn(r) ==
    /\ an_pc' = "returned"
    /\ an_result' = r
    /\ i' = 0
    /\ current_sum' = 0
    /\ best_sum' = 0
    /\ best_index' = 0

\* a slip: the best sum of the call before left in place
AnalyzerSeedStale ==
    /\ an_pc' = "loop"
    /\ best_sum' = IF IsSome(an_result) THEN Unwrap(an_result)[2] ELSE SumTake(0, n)
    /\ best_index' = 0
    /\ current_sum' = SumTake(0, n)
    /\ i' = n
    /\ an_result' = an_result

\* a slip: the running sum starts from zero, not from the seed
AnalyzerSeedSumFromZero ==
    /\ an_pc' = "loop"
    /\ best_sum' = SumTake(0, n)
    /\ best_index' = 0
    /\ current_sum' = 0
    /\ i' = n
    /\ an_result' = an_result

\* lines 89-91 and 116-118: the sum of the first n prices seeds the loop
AnalyzerSeed ==
    /\ an_pc' = "loop"
    /\ best_sum' = SumTake(0, n)
    /\ best_index' = 0
    /\ current_sum' = SumTake(0, n)
    /\ i' = n
    /\ an_result' = an_result

\* a slip: no check of the window length against the sequence length
CheapestRefusesNoLength == periods = << >> \/ n = 0

\* lines 80-87: the early returns of find_cheapest_consecutive_hours
CheapestRefuses == periods = << >> \/ n = 0 \/ Len(periods) < n

\* a slip: the comparison reversed
CheapestBetterReversed(cur, best) == cur > best

\* a slip: a window of equal total replaces the best so far
CheapestBetterOrEqual(cur, best) == cur <= best

\* line 97
CheapestBetter(cur, best) == cur < best

\* lines 79-91: the call of find_cheapest_consecutive_hours up to its loop
CheapestCall ==
    /\ an_pc = "idle"
    /\ call' = "cheapest"
    /\ IF CheapestRefuses THEN AnalyzerReturn(None) ELSE AnalyzerSeed
    /\ UNCHANGED <<periods, n, calls_made, parserVars, outsideVars>>

\* lines 94-101: one iteration of the loop
CheapestIter ==
    /\ an_pc = "loop"
    /\ call = "cheapest"
    /\ i < Len(periods)
    /\ current_sum' = current_sum + (Price(i) - Price(i - n))
    /\ IF CheapestBetter(current_sum', best_sum)
       THEN best_sum' = current_sum' /\ best_index' = i + 1 - n
       ELSE UNCHANGED <<best_sum, best_index>>
    /\ i' = i + 1
    /\ UNCHANGED <<periods, n, call, an_pc, an_result, calls_made, parserVars, outsideVars>>

\* line 103
CheapestReturn ==
    /\ an_pc = "loop"
    /\ call = "cheapest"
    /\ i >= Len(periods)
    /\ AnalyzerReturn(Some(<<best_index, best_sum>>))
    /\ UNCHANGED <<periods, n, call, calls_made, parserVars, outsideVars>>

\* lines 107-114: the early returns of find_expensivest_consecutive_hours
ExpensivestRefuses == periods = << >> \/ n = 0 \/ Len(periods) < n

\* a slip: the comparison reversed
ExpensivestBetterReversed(cur, best) == cur < best

\* line 124
ExpensivestBetter(cur, best) == cur > best

\* lines 106-118: the call of find_expensivest_consecutive_hours up to its loop
ExpensivestCall ==
    /\ an_pc = "idle"
    /\ call' = "expensivest"
    /\ IF ExpensivestRefuses THEN AnalyzerReturn(None) ELSE AnalyzerSeed
    /\ UNCHANGED <<periods, n, calls_made, parserVars, outsideVars>>

\* lines 121-128: one iteration of the loop
ExpensivestIter ==
    /\ an_pc = "loop"
    /\ call = "expensivest"
    /\ i < Len(periods)
    /\ current_sum' = current_sum + (Price(i) - Price(i - n))
    /\ IF ExpensivestBetter(current_sum', best_sum)
       THEN best_sum' = current_sum' /\ best_index' = i + 1 - n
       ELSE UNCHANGED <<best_sum, best_index>>
    /\ i' = i + 1
    /\ UNCHANGED <<periods, n, call, an_pc, an_result, calls_made, parserVars, outsideVars>>

\* line 130
ExpensivestReturn ==
    /\ an_pc = "loop"
    /\ call = "expensivest"
    /\ i >= Len(periods)
    /\ AnalyzerReturn(Some(<<best_index, best_sum>>))
    /\ UNCHANGED <<periods, n, call, calls_made, parserVars, outsideVars>>

\* main, lines 494-516: the caller keeps the result and calls again on the same
\* periods with another window length
AnotherCall ==
    /\ an_pc = "returned"
    /\ calls_made < MaxCalls
    /\ calls_made' = calls_made + 1
    /\ an_pc' = "idle"
    /\ n' \in 0..(MaxLen + 1)
    /\ UNCHANGED <<periods, call, i, current_sum, best_sum, best_index, an_result,
                   parserVars, outsideVars>>

----------------------------------------------------------------------------
(* EntsoeClient (src/client.rs, lines 31-74).  Instants given to the client *)
(* are counted in half minutes.                                             *)

\* no call of the client is under way
ClientIdle ==
    [pc |-> "idle", entry |-> "none", period_start |-> 0, period_end |-> 0,
     url |-> None, requests |-> 0, parsed |-> FALSE, outcome |-> "pending"]

\* format_timestamp (lines 98-100): "%Y%m%d%H%M" keeps the minute of the instant
FormatTimestamp(dt) == dt \div 2

\* a slip: only an end before the start refused
RangeInvalidStrict(from, to) == from > to

\* line 37
RangeInvalid(from, to) == from >= to

\* the call returns
ClientReturn(outcome) == [client EXCEPT !.pc = "returned", !.outcome = outcome]

\* get_day_ahead_prices or fetch_day_ahead_prices is called
ClientCall ==
    /\ client.pc = "idle"
    /\ \E entry \in {"fetch", "get"}, from \in 0..MaxTime, to \in 0..MaxTime :
           client' = [client EXCEPT !.pc = "check", !.entry = entry,
                                    !.period_start = from, !.period_end = to]
    /\ UNCHANGED <<table, last_stored, store_result, library, fetch, parserVars, analyzerVars>>

\* lines 37-41: the range check
CheckRange ==
    /\ client.pc = "check"
    /\ client' = IF RangeInvalid(client.period_start, client.period_end)
                 THEN ClientReturn("InvalidTimeRange")
                 ELSE [client EXCEPT !.pc = "build"]
    /\ UNCHANGED <<table, last_stored, store_result, library, fetch, parserVars, analyzerVars>>

\* line 43 and lines 76-95: the URL, built from a constant base that parses
BuildUrl ==
    /\ client.pc = "build"
    /\ client' = [client EXCEPT
                      !.pc = "send",
                      !.url = Some([periodStart |-> FormatTimestamp(client.period_start),
                                    periodEnd |-> FormatTimestamp(client.period_end)])]
    /\ UNCHANGED <<table, last_stored, store_result, library, fetch, parserVars, analyzerVars>>

\* lines 45-53: the request is sent; the transport fails, or the server answers with
\* a status that is or is not a success
SendRequest ==
    /\ client.pc = "send"
    /\ \E answer \in {"Http", "ApiError", "success"} :
           client' = IF answer = "success"
                     THEN [client EXCEPT !.pc = "body", !.requests = @ + 1]
                     ELSE [ClientReturn(answer) EXCEPT !.requests = @ + 1]
    /\ UNCHANGED <<table, last_stored, store_result, library, fetch, parserVars, analyzerVars>>

\* lines 55-56 and 70-73: the body is read; fetch returns the bytes, get goes on
\* to the parser
ReadBody ==
    /\ client.pc = "body"
    /\ \E read \in BOOLEAN :
           client' = IF ~read THEN ClientReturn("Http")
                     ELSE IF client.entry = "fetch" THEN ClientReturn("Bytes")
                     ELSE [client EXCEPT !.pc = "parse"]
    /\ UNCHANGED <<table, last_stored, store_result, library, fetch, parserVars, analyzerVars>>

\* line 73: parse_day_ahead_prices(&xml), whose result get_day_ahead_prices returns
ParseBody ==
    /\ client.pc = "parse"
    /\ \E outcome \in {"Ok", "XmlParseError", "MissingField"} :
           client' = [ClientReturn(outcome) EXCEPT !.parsed = TRUE]
    /\ UNCHANGED <<table, last_stored, store_result, library, fetch, parserVars, analyzerVars>>

----------------------------------------------------------------------------
(* The prices table (src/bin/entsoe-fetch.rs, lines 12-56).  A price of a   *)
(* document is Some(v), v counted in thousandths of a currency unit per     *)
(* MWh, or None for the f64 that is not a number (the parser takes "NaN").  *)

Zones == {"FI", "SE4"}

\* DateTime::to_rfc3339 of an instant of 2024-01-15, UTC
ToRfc3339(t) ==
    [date |-> "2024-01-15", hour |-> t \div 60, minute |-> t % 60, offset |-> "+00:00"]

\* format!("{:.5}", price_per_kwh()): the price divided by 1000 (price.rs:15-17),
\* written with five decimals, rounded: Some(count of 0.00001); None is "NaN"
FormatPrice(p) == IF IsSome(p) THEN Some((Unwrap(p) + 5) \div 10) ELSE None

\* the CHECK on price (line 15): the text holds a digit
PriceCheck(text) == IsSome(text)

\* the CHECK on currency (line 16): three characters, none in lower case
CurrencyCheck(c) == c \in {"EUR", "SEK"}

\* the row a sample is written as (lines 48-51)
Row(zone, doc, price_point) ==
    [timestamp |-> ToRfc3339(price_point.timestamp),
     price |-> FormatPrice(price_point.price),
     currency |-> doc.currency,
     price_area |-> zone]

\* PRIMARY KEY (timestamp, price_area) (line 18)
Key(row) == <<row.timestamp, row.price_area>>

\* a slip: the row with the same key left in the table
InsertKeepingOld(rows, row) == rows \cup {row}

\* INSERT OR REPLACE (lines 41-44): the row takes the place of the row with its key
InsertOrReplace(rows, row) == {r \in rows : Key(r) # Key(row)} \cup {row}

\* lines 48-53: the samples written one by one from index k; a row that fails a
\* CHECK ends the call with an error, the rows written before it stay
RECURSIVE StoreFrom(_, _, _, _)
StoreFrom(rows, zone, doc, k) ==
    IF k > Len(doc.prices) THEN [table |-> rows, result |-> "Ok"]
    ELSE IF ~CurrencyCheck(doc.currency) \/ ~PriceCheck(FormatPrice(doc.prices[k].price))
    THEN [table |-> rows, result |-> "Err"]
    ELSE StoreFrom(InsertOrReplace(rows, Row(zone, doc, doc.prices[k])), zone, doc, k + 1)

\* the samples a document can hold: the parser leaves them in timestamp order
StorePoints ==
    [timestamp : {0, 60}, price : {Some(14), Some(16)}]
        \cup {[timestamp |-> 60, price |-> None]}

StorePrices ==
    {ps \in UNION {[1..len -> StorePoints] : len \in 0..MaxRows} :
        \A k \in 1..(Len(ps) - 1) : ps[k].timestamp <= ps[k + 1].timestamp}

\* the documents stored; one whose currency fails the CHECK is refused at its first
\* row, so documents of at most one row stand for all of them
StoreDocs ==
    [currency : {"EUR"}, prices : StorePrices]
        \cup [currency : {"eur"}, prices : {ps \in StorePrices : Len(ps) <= 1}]

\* store_prices(&conn, zone, &price_doc) (lines 36-56)
StoreCall ==
    \E zone \in Zones, doc \in StoreDocs :
        /\ table' = StoreFrom(table, zone, doc, 1).table
        /\ store_result' = StoreFrom(table, zone, doc, 1).result
        /\ last_stored' = Some([zone |-> zone, doc |-> doc])
        /\ UNCHANGED <<client, library, fetch, parserVars, analyzerVars>>

----------------------------------------------------------------------------
(* BiddingZone (src/bidding_zone.rs).  A string is the sequence of its      *)
(* characters, each a string of one letter; three characters outside ASCII  *)
(* are named: "dotless_i" (U+0131), "long_s" (U+017F), "fi_ligature"        *)
(* (U+FB01).                                                                *)

\* the variants of the enum (lines 9-32)
BiddingZones ==
    {"DE", "AT", "BE", "DK1", "DK2", "FI", "FR", "ITNorth",
     "NL", "NO1", "NO2", "NO3", "NO4", "NO5", "PL", "ES",
     "SE1", "SE2", "SE3", "SE4", "CH", "GB"}

LowerLetters == <<"a", "b", "c", "d", "e", "f", "g", "h", "i", "j", "k", "l", "m",
                  "n", "o", "p", "q", "r", "s", "t", "u", "v", "w", "x", "y", "z">>
UpperLetters == <<"A", "B", "C", "D", "E", "F", "G", "H", "I", "J", "K", "L", "M",
                  "N", "O", "P", "Q", "R", "S", "T", "U", "V", "W", "X", "Y", "Z">>

\* char::to_uppercase: the characters a character becomes
UpperOfChar(c) ==
    IF \E k \in 1..26 : LowerLetters[k] = c
    THEN <<UpperLetters[CHOOSE k \in 1..26 : LowerLetters[k] = c]>>
    ELSE CASE c = "dotless_i" -> <<"I">>
           [] c = "long_s" -> <<"S">>
           [] c = "fi_ligature" -> <<"F", "I">>
           [] OTHER -> <<c>>

\* str::to_uppercase (line 87)
RECURSIVE ToUppercase(_)
ToUppercase(str) ==
    IF str = << >> THEN << >> ELSE UpperOfChar(str[1]) \o ToUppercase(Tail(str))

\* the arms of the match in from_code (lines 88-109): pattern and zone
FromCodeArms ==
    {<<<<"D", "E">>, "DE">>,
     <<<<"A", "T">>, "AT">>,
     <<<<"B", "E">>, "BE">>,
     <<<<"D", "K", "1">>, "DK1">>,
     <<<<"D", "K", "2">>, "DK2">>,
     <<<<"F", "I">>, "FI">>,
     <<<<"F", "R">>, "FR">>,
     <<<<"I", "T", "-", "N", "O", "R", "T", "H">>, "ITNorth">>,
     <<<<"I", "T", "N", "O", "R", "T", "H">>, "ITNorth">>,
     <<<<"N", "L">>, "NL">>,
     <<<<"N", "O", "1">>, "NO1">>,
     <<<<"N", "O", "2">>, "NO2">>,
     <<<<"N", "O", "3">>, "NO3">>,
     <<<<"N", "O", "4">>, "NO4">>,
     <<<<"N", "O", "5">>, "NO5">>,
     <<<<"P", "L">>, "PL">>,
     <<<<"E", "S">>, "ES">>,
     <<<<"S", "E", "1">>, "SE1">>,
     <<<<"S", "E", "2">>, "SE2">>,
     <<<<"S", "E", "3">>, "SE3">>,
     <<<<"S", "E", "4">>, "SE4">>,
     <<<<"C", "H">>, "CH">>,
     <<<<"G", "B">>, "GB">>}

\* a slip: the code matched as it is given
FromCodeAsGiven(code) ==
    IF \E arm \in FromCodeArms : arm[1] = code
    THEN Some((CHOOSE arm \in FromCodeArms : arm[1] = code)[2])
    ELSE None

\* BiddingZone::from_code (lines 86-112)
FromCode(code) ==
    IF \E arm \in FromCodeArms : arm[1] = ToUppercase(code)
    THEN Some((CHOOSE arm \in FromCodeArms : arm[1] = ToUppercase(code))[2])
    ELSE None

\* BiddingZone::code (lines 124-149)
Code(zone) ==
    CASE zone = "DE" -> <<"D", "E">>
      [] zone = "AT" -> <<"A", "T">>
      [] zone = "BE" -> <<"B", "E">>
      [] zone = "DK1" -> <<"D", "K", "1">>
      [] zone = "DK2" -> <<"D", "K", "2">>
      [] zone = "FI" -> <<"F", "I">>
      [] zone = "FR" -> <<"F", "R">>
      [] zone = "ITNorth" -> <<"I", "T", "-", "N", "o", "r", "t", "h">>
      [] zone = "NL" -> <<"N", "L">>
      [] zone = "NO1" -> <<"N", "O", "1">>
      [] zone = "NO2" -> <<"N", "O", "2">>
      [] zone = "NO3" -> <<"N", "O", "3">>
      [] zone = "NO4" -> <<"N", "O", "4">>
      [] zone = "NO5" -> <<"N", "O", "5">>
      [] zone = "PL" -> <<"P", "L">>
      [] zone = "ES" -> <<"E", "S">>
      [] zone = "SE1" -> <<"S", "E", "1">>
      [] zone = "SE2" -> <<"S", "E", "2">>
      [] zone = "SE3" -> <<"S", "E", "3">>
      [] zone = "SE4" -> <<"S", "E", "4">>
      [] zone = "CH" -> <<"C", "H">>
      [] zone = "GB" -> <<"G", "B">>

\* impl fmt::Display for BiddingZone (lines 152-156)
Display(zone) == Code(zone)

----------------------------------------------------------------------------
(* Timestamp reconstruction at full width (price_parser.rs, lines 16,       *)
(* 123-125 and 159-166).  position is a u32, the offset and the instant are *)
(* i64 quantities that an integer of the model checker cannot hold: each is *)
(* kept as hi * LimbBase + lo with 0 <= lo < LimbBase.                      *)

LimbBase == 256 * 256

Wide(hi, lo) == [hi |-> hi, lo |-> lo]

\* the carry of lo taken into hi
Norm(hi, lo) == Wide(hi + (lo \div LimbBase), lo % LimbBase)

WideAdd(a, b) == Norm(a.hi + b.hi, a.lo + b.lo)

\* a * m for a factor m of at most a few hundred
WideTimes(a, m) == Norm(a.hi * m, a.lo * m)

WideLeq(a, b) == a.hi < b.hi \/ (a.hi = b.hi /\ a.lo <= b.lo)

\* u32::MAX, 4294967295
U32Max == Wide(LimbBase - 1, LimbBase - 1)

Digits == <<"0", "1", "2", "3", "4", "5", "6", "7", "8", "9">>

DigitValue(c) == (CHOOSE k \in 1..10 : Digits[k] = c) - 1

\* the digits of a numeral read from the left: None at a character that is no
\* digit and when the value passes u32::MAX
RECURSIVE ReadDigits(_, _)
ReadDigits(str, acc) ==
    IF str = << >> THEN Some(acc)
    ELSE IF ~(\E k \in 1..10 : Digits[k] = str[1]) THEN None
    ELSE IF ~WideLeq(WideAdd(WideTimes(acc, 10), Wide(0, DigitValue(str[1]))), U32Max)
         THEN None
    ELSE ReadDigits(Tail(str), WideAdd(WideTimes(acc, 10), Wide(0, DigitValue(str[1]))))

\* text.parse::<u32>().ok() (line 124) on the characters of the text: an optional
\* '+' and at least one digit
ParseU32Text(str) ==
    IF str = << >> THEN None
    ELSE IF str[1] = "+" THEN (IF Len(str) = 1 THEN None ELSE ReadDigits(Tail(str), Wide(0, 0)))
    ELSE ReadDigits(str, Wide(0, 0))

\* the minutes from the epoch of the first and the last minute a DateTime<Utc> can
\* hold: the years -262144 and 262143 (a chrono that ends a year earlier holds less)
MinInstant == Wide(-2119607, 15392)
MaxInstant == Wide(2087986, 56383)

\* the addition of line 163 does not return: `DateTime + Duration` overflowed
Panic == [kind |-> "panic", at |-> Wide(0, 0)]

Valid(t) == [kind |-> "instant", at |-> t]

\* line 162: (position as i64 - 1) * resolution.minutes()
OffsetMinutes(position, res) ==
    WideTimes(WideAdd(position, Wide(-1, LimbBase - 1)), ResolutionMinutes(res))

\* line 163: start + Duration::minutes(offset_minutes); the operator + of a DateTime
\* panics when the sum is outside what a DateTime holds (every offset of line 162 is
\* within what Duration::minutes takes)
AddMinutes(start, offset) ==
    IF WideLeq(MinInstant, WideAdd(start, offset)) /\ WideLeq(WideAdd(start, offset), MaxInstant)
    THEN Valid(WideAdd(start, offset))
    ELSE Panic

\* lines 162-163 for a sample (start, position, price) of all_points
TimestampWide(start, position, res) ==
    AddMinutes(Norm(0, start), OffsetMinutes(position, res))

----------------------------------------------------------------------------
(* The zone loop of entsoe-fetch (src/bin/entsoe-fetch.rs, lines 138-176).  *)
(* zones is the list the loop runs over: one zone, or what all_zones()      *)
(* gives; any list of zones stands for it.                                  *)

\* the locals before the loop (lines 138-140) and a record of what the loop has
\* done: the zones it called the client for, and for each whether its prices were
\* stored and how many they were
FetchIdle ==
    [pc |-> "idle", zones |-> << >>, next |-> 1, total_prices |-> 0,
     successful_zones |-> 0, failed_zones |-> << >>, attempted |-> << >>,
     stored |-> << >>]

\* what get_day_ahead_prices gives for a zone when it returns an error (client.rs,
\* lines 37-41, 45-56; price_parser.rs, lines 134-157)
FetchErrors == {"InvalidTimeRange", "Http", "ApiError", "XmlParseError", "MissingField"}

FetchPoint(position, price) == [position |-> position, price |-> price]

\* the documents the server answers with: the currency text and the Points of one
\* Period of one-hour samples that starts at 00:00, each Point the text of its
\* position and its price (None: the price text is "NaN")
FetchBodies ==
    [currency : {"EUR"},
     points : {<<FetchPoint(<<"1">>, Some(14000))>>,
               <<FetchPoint(<<"1">>, Some(14000)), FetchPoint(<<"2">>, Some(16000))>>,
               <<FetchPoint(<<"1">>, Some(14000)), FetchPoint(<<"2">>, None)>>,
               <<FetchPoint(<<"1">>, Some(14000)),
                 FetchPoint(<<"4", "2", "9", "4", "9", "6", "7", "2", "9", "5">>,
                            Some(16000))>>}]
        \cup [currency : {"eur"}, points : {<<FetchPoint(<<"1">>, Some(14000))>>}]

\* the timestamps finalization computes for the Points of a body (price_parser.rs,
\* lines 159-166)
BodyTimestamps(body) ==
    [k \in 1..Len(body.points) |->
        TimestampWide(0, Unwrap(ParseU32Text(body.points[k].position)), "PT60M")]

\* the PriceDocument parse_day_ahead_prices returns for a body whose timestamps
\* are all instants (lines 159-176); the Points of a body stand in timestamp order
BodyDocument(body) ==
    [currency |-> body.currency,
     prices |-> [k \in 1..Len(body.points) |->
                    [timestamp |-> BodyTimestamps(body)[k].at.lo,
                     price |-> body.points[k].price]]]

\* the Err arms (lines 152-160): the zone and the error are pushed
FetchFailed(zone, error) ==
    [fetch EXCEPT !.next = @ + 1,
                  !.attempted = Append(@, zone),
                  !.stored = Append(@, None),
                  !.failed_zones = Append(@, <<zone, error>>)]

\* the Ok arm (lines 147-151)
FetchStored(zone, doc) ==
    [fetch EXCEPT !.next = @ + 1,
                  !.attempted = Append(@, zone),
                  !.stored = Append(@, Some(Len(doc.prices))),
                  !.total_prices = @ + Len(doc.prices),
                  !.successful_zones = @ + 1]

\* lines 142-162: one iteration of the loop, the client answering with an error
FetchZoneErr ==
    /\ fetch.pc = "loop"
    /\ fetch.next <= Len(fetch.zones)
    /\ \E error \in FetchErrors : fetch' = FetchFailed(fetch.zones[fetch.next], error)
    /\ UNCHANGED <<client, table, last_stored, store_result, library, parserVars,
                   analyzerVars>>

\* lines 142-162: one iteration of the loop, the server answering with a document.
\* When the addition of price_parser.rs:163 panics, the panic unwinds through
\* get_day_ahead_prices and main: the process ends inside the iteration.
FetchZoneBody ==
    /\ fetch.pc = "loop"
    /\ fetch.next <= Len(fetch.zones)
    /\ \E body \in FetchBodies :
           IF \E k \in 1..Len(body.points) : BodyTimestamps(body)[k] = Panic
           THEN /\ fetch' = [fetch EXCEPT !.pc = "panicked",
                                          !.attempted = Append(@, fetch.zones[fetch.next])]
                /\ UNCHANGED <<table, last_stored, store_result>>
           ELSE /\ table' = StoreFrom(table, fetch.zones[fetch.next], BodyDocument(body), 1).table
                /\ store_result' =
                       StoreFrom(table, fetch.zones[fetch.next], BodyDocument(body), 1).result
                /\ last_stored' = Some([zone |-> fetch.zones[fetch.next],
                                         doc |-> BodyDocument(body)])
                /\ fetch' = IF store_result' = "Ok"
                            THEN FetchStored(fetch.zones[fetch.next], BodyDocument(body))
                            ELSE FetchFailed(fetch.zones[fetch.next], "Database error")
    /\ UNCHANGED <<client, library, parserVars, analyzerVars>>

\* lines 164-176: the loop has ended, the summary is printed and main returns
FetchSummary ==
    /\ fetch.pc = "loop"
    /\ fetch.next > Len(fetch.zones)
    /\ fetch' = [fetch EXCEPT !.pc = "returned"]
    /\ UNCHANGED <<client, table, last_stored, store_result, library, parserVars,
                   analyzerVars>>

----------------------------------------------------------------------------
(* Calls of the functions of the library, one at a time, each on an         *)
(* argument given beforehand.                                               *)

\* an argument: a string (str), a variant of an enum or a code in one piece
\* (name), or the text of an instant (text)
Arg(kind, str, name, text) == [kind |-> kind, str |-> str, name |-> name, text |-> text]

\* no function has been called
LibraryIdle == [fn |-> "none", arg |-> Arg("none", << >>, "", Blank), ret |-> None]

\* char::to_lowercase of an ASCII character
LowerOfChar(c) ==
    IF \E k \in 1..26 : UpperLetters[k] = c
    THEN LowerLetters[CHOOSE k \in 1..26 : UpperLetters[k] = c]
    ELSE c

\* str::to_lowercase of an ASCII string
ToLowercase(str) == [k \in 1..Len(str) |-> LowerOfChar(str[k])]

\* the codes of the zones as code() gives them, in lower case and in upper case
ZoneCodeInputs ==
    UNION {{Code(z), ToLowercase(Code(z)), ToUppercase(Code(z))} : z \in BiddingZones}

\* strings that are the code of no zone in any case
OtherCodeInputs ==
    {<<"I", "N", "V", "A", "L", "I", "D">>,
     << >>,
     <<"I", "T", "N", "O", "R", "T", "H">>,
     <<"i", "t", "n", "o", "r", "t", "h">>,
     <<"I", "t", "N", "o", "r", "t", "h">>,
     <<"I", "T", "_", "N", "o", "r", "t", "h">>,
     <<"F">>,
     <<"F", "I", "N">>,
     <<" ", "F", "I">>,
     <<"F", "I", " ">>,
     <<"S", "E", "5">>,
     <<"N", "O">>,
     <<"f", "dotless_i">>,
     <<"long_s", "e", "1">>,
     <<"fi_ligature">>,
     <<"1", "0", "Y", "F", "I", "-", "1", "-", "-", "-", "-", "-", "-", "-", "-", "U">>}

\* the codes Resolution::parse is given
ResolutionCodeInputs ==
    {"PT15M", "PT60M", "pt15m", "pt60m", "PT15M ", " PT60M", "PT30M", "PT1H", "PT15",
     "P1D", "15", "60", "", "INVALID"}

\* the instant texts read: local time, with and without seconds, zulu or with a
\* numeric offset
InstantInputs ==
    {Instant(m, secs, tz, zulu) :
        m \in {0, 60}, secs \in BOOLEAN, tz \in {-120, 0, 60}, zulu \in {FALSE}}
    \cup {Instant(m, secs, 0, TRUE) : m \in {0, 60}, secs \in BOOLEAN}

\* the texts of <position>: the least and the greatest u32, numerals beyond it,
\* the last position that one-hour samples from the epoch can take, and texts that
\* are no numeral
PositionInputs ==
    {<<"0">>,
     <<"1">>,
     <<"2">>,
     <<"9", "6">>,
     <<"+", "1">>,
     <<"2", "1", "4", "7", "4", "8", "3", "6", "4", "7">>,
     <<"2", "1", "4", "7", "4", "8", "3", "6", "4", "8">>,
     <<"2", "2", "8", "0", "6", "3", "8", "4", "4", "8">>,
     <<"2", "2", "8", "0", "6", "3", "8", "4", "4", "9">>,
     <<"4", "2", "9", "4", "9", "6", "7", "2", "9", "5">>,
     <<"4", "2", "9", "4", "9", "6", "7", "2", "9", "6">>,
     <<"9", "9", "9", "9", "9", "9", "9", "9", "9", "9", "9">>,
     <<"-", "1">>,
     <<>>,
     <<"x">>,
     <<"+">>}

\* the anchors of a sample: 0000-01-01T00:00Z, the epoch, 2024-01-15T00:00Z
AnchorInputs ==
    {Instant(-1036120320, TRUE, 0, TRUE), Instant(0, TRUE, 0, TRUE),
     Instant(28421280, TRUE, 0, TRUE)}

LibraryInputs ==
    {Arg("code", str, "", Blank) : str \in ZoneCodeInputs \cup OtherCodeInputs}
    \cup {Arg("zone", << >>, z, Blank) : z \in BiddingZones}
    \cup {Arg("resolution_code", << >>, c, Blank) : c \in ResolutionCodeInputs}
    \cup {Arg("resolution", << >>, r, Blank) : r \in {"PT15M", "PT60M"}}
    \cup {Arg("instant", << >>, "", t) : t \in InstantInputs}
    \cup {Arg("sample", str, r, t) :
             str \in PositionInputs, r \in {"PT15M", "PT60M"}, t \in AnchorInputs}

\* the function fn is called on the argument and returns ret
LibraryCall(kind, fn, ret) ==
    /\ library.fn = "none"
    /\ library.arg.kind = kind
    /\ library' = [library EXCEPT !.fn = fn, !.ret = ret]
    /\ UNCHANGED <<client, table, last_stored, store_result, fetch, parserVars,
                   analyzerVars>>

FromCodeCall == LibraryCall("code", "from_code", FromCode(library.arg.str))

CodeCall == LibraryCall("zone", "code", Code(library.arg.name))

DisplayCall == LibraryCall("zone", "display", Display(library.arg.name))

ResolutionParseCall ==
    LibraryCall("resolution_code", "parse", ResolutionParse(library.arg.name))

ResolutionMinutesCall ==
    LibraryCall("resolution", "minutes", Some(ResolutionMinutes(library.arg.name)))

\* the arms "start" and "end" of the decoder (price_parser.rs, lines 91-99 and
\* 108-116) turn the text of an instant into dt
InstantTextRead ==
    \E tag \in {"start", "end"} :
        LibraryCall("instant", tag, ParseInstantText(library.arg.text))

\* a Point with the given <position> text closes in a Period with the given anchor
\* (lines 123-125, 55-60) and finalization computes its timestamp with the
\* resolution (lines 159-166); a text that is no u32 leaves the Point without
\* position and no sample is made
SampleTimestamp ==
    LibraryCall("sample", "timestamp",
                IF ParseU32Text(library.arg.str) = None \/ ParseInstantText(library.arg.text) = None
                THEN None
                ELSE Some(TimestampWide(Unwrap(ParseInstantText(library.arg.text)),
                                        Unwrap(ParseU32Text(library.arg.str)),
                                        library.arg.name)))

----------------------------------------------------------------------------
(* Specifications *)

\* the client is not called and the table is as init_database made it
OutsideIdle ==
    /\ client = ClientIdle
    /\ table = {}
    /\ last_stored = None
    /\ store_result = "none"
    /\ library = LibraryIdle
    /\ fetch = FetchIdle

\* the parts of a document a record can be kept of
Parts == {"currency", "resolution", "interval", "points"}

\* one call, on a buffer the model does not hold
SingleCall ==
    /\ remaining = None
    /\ buffers = << >>
    /\ edits = << >>
    /\ active = "a"
    /\ parked = << >>

\* the decoder before its first event
ParserInit ==
    /\ stack = << >>
    /\ readerState = "open"
    /\ LocalsInit
    /\ pc = "scan"
    /\ result = Running
    /\ period_anchor = None
    /\ seen_currencies = << >>
    /\ seen_resolutions = << >>
    /\ seen_starts = {}
    /\ seen_ends = {}
    /\ point_position = None
    /\ point_price = None
    /\ complete_points = << >>
    /\ dropped_point = FALSE
    /\ open_periods = << >>
    /\ pos = 1

\* the prices of the sequences given to the analyzer
PriceVals == {-1, 1, 2}

\* the sequence of the worked example
ExamplePrices == <<5, 1, 2, 8, 3>>

PriceSeqs == UNION {[1..len -> PriceVals] : len \in 0..MaxLen} \cup {ExamplePrices}

\* one decode call on a document chosen as it is read; the analyzer is not called
Init ==
    /\ ParserInit
    /\ watched = "nothing"
    /\ SingleCall
    /\ periods = << >>
    /\ n = 0
    /\ call = "none"
    /\ an_pc = "idle"
    /\ AnalyzerIdle
    /\ OutsideIdle

Next == StartEvent \/ EndEvent \/ TextEvent \/ EofEvent \/ ErrEvent \/ OtherEvent

Spec == Init /\ [][Next]_vars

\* one analyzer call on a sequence and a window length; the decoder does not run
InitAnalyzer ==
    /\ ParserInit
    /\ watched = "nothing"
    /\ SingleCall
    /\ periods \in PriceSeqs
    /\ n \in 0..(MaxLen + 1)
    /\ call = "none"
    /\ an_pc = "idle"
    /\ AnalyzerIdle
    /\ OutsideIdle

NextAnalyzer ==
    \/ CheapestCall \/ CheapestIter \/ CheapestReturn
    \/ ExpensivestCall \/ ExpensivestIter \/ ExpensivestReturn

SpecAnalyzer == InitAnalyzer /\ [][NextAnalyzer]_vars

\* one call of the client
NextClient ==
    \/ ClientCall \/ CheckRange \/ BuildUrl \/ SendRequest \/ ReadBody \/ ParseBody

SpecClient == Init /\ [][NextClient]_vars

\* one call of a function of the library on an argument
InitLibrary ==
    /\ ParserInit
    /\ watched = "nothing"
    /\ SingleCall
    /\ periods = << >>
    /\ n = 0
    /\ call = "none"
    /\ an_pc = "idle"
    /\ AnalyzerIdle
    /\ client = ClientIdle
    /\ table = {}
    /\ last_stored = None
    /\ store_result = "none"
    /\ library \in {[LibraryIdle EXCEPT !.arg = a] : a \in LibraryInputs}
    /\ fetch = FetchIdle

NextLibrary ==
    \/ FromCodeCall \/ CodeCall \/ DisplayCall
    \/ ResolutionParseCall \/ ResolutionMinutesCall
    \/ InstantTextRead \/ SampleTimestamp

SpecLibrary == InitLibrary /\ [][NextLibrary]_vars

\* store_prices called again and again on one table
NextStore == StoreCall

SpecStore == Init /\ [][NextStore]_vars

\* the zone lists the loop is given
ZoneLists == UNION {[1..len -> Zones] : len \in 1..MaxZones}

\* entsoe-fetch at the start of its loop, the table as init_database made it
InitFetch ==
    /\ ParserInit
    /\ watched = "nothing"
    /\ SingleCall
    /\ periods = << >>
    /\ n = 0
    /\ call = "none"
    /\ an_pc = "idle"
    /\ AnalyzerIdle
    /\ client = ClientIdle
    /\ table = {}
    /\ last_stored = None
    /\ store_result = "none"
    /\ library = LibraryIdle
    /\ fetch \in {[FetchIdle EXCEPT !.pc = "loop", !.zones = zs] : zs \in ZoneLists}

NextFetch == FetchZoneErr \/ FetchZoneBody \/ FetchSummary

SpecFetch == InitFetch /\ [][NextFetch]_vars

\* a caller that calls the analyzer again and again on one sequence
NextRepeated == NextAnalyzer \/ AnotherCall

SpecRepeated == InitAnalyzer /\ [][NextRepeated]_vars

\* one decode call, with the record of what the document has shown
NextTraced ==
    \/ StartEvent \/ TracedEndEvent \/ TracedTextEvent
    \/ EofEvent \/ ErrEvent \/ OtherEvent

InitTraced ==
    /\ ParserInit
    /\ watched \in Parts
    /\ SingleCall
    /\ periods = << >>
    /\ n = 0
    /\ call = "none"
    /\ an_pc = "idle"
    /\ AnalyzerIdle
    /\ OutsideIdle

SpecTraced == InitTraced /\ [][NextTraced]_vars

\* one decode call on a document whose elements nest freely
NextNested ==
    \/ NestedStartEvent \/ NestedEndEvent \/ NestedTextEvent
    \/ EofEvent \/ ErrEvent

SpecNested == Init /\ [][NextNested]_vars

\* one decode call on a document with elements out of place
NextMisplaced ==
    \/ MisplacedStartEvent \/ EndEvent \/ MisplacedTextEvent
    \/ EofEvent \/ ErrEvent \/ OtherEvent

SpecMisplaced == Init /\ [][NextMisplaced]_vars

\* one decode call on a document with an unknown element put in somewhere
InitInserted ==
    /\ ParserInit
    /\ watched = "nothing"
    /\ remaining = None
    /\ active = "a"
    /\ parked = << >>
    /\ \E d \in DOMAIN Documents, what \in UnknownElements :
         \E at \in 0..Len(Documents[d]) :
           /\ buffers = [c \in {"a"} |-> d]
           /\ edits = [c \in {"a"} |-> Insert(at, what)]
    /\ periods = << >>
    /\ n = 0
    /\ call = "none"
    /\ an_pc = "idle"
    /\ AnalyzerIdle
    /\ OutsideIdle

NextInserted ==
    \/ DeliverStart \/ DeliverEnd \/ DeliverText \/ DeliverOther
    \/ DeliverErr \/ DeliverEof

SpecInserted == InitInserted /\ [][NextInserted]_vars

\* one decode call on a buffer of at most MaxEvents events
InitFinite ==
    /\ ParserInit
    /\ watched = "nothing"
    /\ remaining = Some(MaxEvents)
    /\ buffers = << >>
    /\ edits = << >>
    /\ active = "a"
    /\ parked = << >>
    /\ periods = << >>
    /\ n = 0
    /\ call = "none"
    /\ an_pc = "idle"
    /\ AnalyzerIdle
    /\ OutsideIdle

\* the loop (lines 30-142) is straight-line code between two reads: the call goes
\* on as long as the reader has something to deliver
SpecFinite == InitFinite /\ [][NextTraced]_vars /\ WF_vars(NextTraced)

\* two calls on buffers of their own, at first neither has read an event
InitConcurrent ==
    /\ ParserInit
    /\ watched = "nothing"
    /\ remaining = None
    /\ buffers \in [Calls -> DOMAIN Documents]
    /\ edits = [c \in Calls |-> NoEdit]
    /\ active \in Calls
    /\ parked = [c \in Calls |-> Fresh]
    /\ periods = << >>
    /\ n = 0
    /\ call = "none"
    /\ an_pc = "idle"
    /\ AnalyzerIdle
    /\ OutsideIdle

NextConcurrent ==
    \/ DeliverStart \/ DeliverEnd \/ DeliverText \/ DeliverOther
    \/ DeliverErr \/ DeliverEof \/ Switch

SpecConcurrent == InitConcurrent /\ [][NextConcurrent]_vars

\* two calls, one on a document and one on the same document with its Periods in
\* the other order
InitReordered ==
    /\ ParserInit
    /\ watched = "nothing"
    /\ remaining = None
    /\ \E d \in DOMAIN Documents : buffers = [c \in Calls |-> d]
    /\ edits = [c \in Calls |-> IF c = "a" THEN NoEdit ELSE Swap]
    /\ active \in Calls
    /\ parked = [c \in Calls |-> Fresh]
    /\ periods = << >>
    /\ n = 0
    /\ call = "none"
    /\ an_pc = "idle"
    /\ AnalyzerIdle
    /\ OutsideIdle

SpecReordered == InitReordered /\ [][NextConcurrent]_vars

----------------------------------------------------------------------------
(* Properties of the decoder, under Spec *)

\* the document of a successful decode
Doc == result.doc[1]

Decoded == pc = "done" /\ result.kind = "Ok"

\* the document was read to its end with every element closed
WellFormed == readerState = "eof" /\ stack = << >>

\* how often x occurs in the sequence s
Count(s, x) == Cardinality({k \in 1..Len(s) : s[k] = x})

\* the two sequences hold the same elements, each as often
SameBag(a, b) ==
    /\ Len(a) = Len(b)
    /\ \A k \in 1..Len(a) : Count(a, a[k]) = Count(b, a[k])

\* C1 as stated: the prices of every decoded document are strictly ascending by
\* timestamp, so no two entries share a timestamp.
C1_StrictlyAscending ==
    Decoded /\ WellFormed =>
        \A k \in 1..(Len(Doc.prices) - 1) :
            Doc.prices[k].timestamp < Doc.prices[k + 1].timestamp

\* C1 (amended): the prices of every decoded document are in non-decreasing
\* timestamp order; entries with equal timestamps are all kept.
C1_NonDecreasing ==
    Decoded =>
        \A k \in 1..(Len(Doc.prices) - 1) :
            Doc.prices[k].timestamp <= Doc.prices[k + 1].timestamp

\* a decoded document with two entries for one timestamp
C1_Witness ==
    /\ Decoded
    /\ WellFormed
    /\ Len(Doc.prices) = 2
    /\ Doc.prices[1].timestamp = Doc.prices[2].timestamp

\* minutes per sample of a resolution, as the specification names them
C2_Minutes(r) == CASE r = "PT15M" -> 15 [] r = "PT60M" -> 60

\* the samples the accumulated Points stand for
C2_Expected ==
    [k \in 1..Len(all_points) |->
        [timestamp |-> all_points[k].start
                       + (all_points[k].position - 1) * C2_Minutes(Unwrap(resolution)),
         price |-> all_points[k].price]]

C2_Step ==
    /\ (pc = "scan" /\ Len(all_points') > Len(all_points)) =>
           /\ Top(stack) = "Point"
           /\ IsSome(period_anchor)
           /\ all_points' = Append(all_points,
                                   [start |-> Unwrap(period_anchor),
                                    position |-> Unwrap(current_position),
                                    price |-> Unwrap(current_price)])
    /\ (pc = "scan" /\ result'.kind = "Ok") =>
           SameBag(result'.doc[1].prices, C2_Expected)
    /\ Timestamp(0, 5, "PT15M") = 60

\* C2: a sample is accumulated only at the close of a Point, with the start instant
\* read in the enclosing Period as its anchor and the Point's position, and every
\* sample of the decoded document has timestamp anchor + (position - 1) *
\* resolution minutes; 15-minute resolution, anchor 00:00 and position 5 give 01:00.
C2_TimestampFromAnchor == [][C2_Step]_vars

\* a decoded sample at 01:15: anchor 01:00, position 2, 15-minute resolution
C2_Witness ==
    /\ Decoded
    /\ WellFormed
    /\ \E k \in 1..Len(Doc.prices) : Doc.prices[k].timestamp = 75

\* the accumulator that a MissingField name stands for was never set
C3_NeverObserved(name) ==
    CASE name = "currency_Unit.name" -> currency = None
      [] name = "resolution" -> resolution = None
      [] name = "period start" -> period_start = None
      [] name = "period end" -> period_end = None
      [] OTHER -> FALSE

C3_Step ==
    (pc = "scan" /\ readerState' = "eof") =>
        /\ (currency = None \/ resolution = None \/ period_start = None
              \/ period_end = None) => result'.kind = "MissingField"
        /\ result'.kind = "MissingField" => C3_NeverObserved(result'.detail)
        /\ stack = << >> /\ LocalsInit =>
               result' = Err("MissingField", "currency_Unit.name")

\* C3: when the input ends with currency, resolution, period start or period end
\* never observed, decode fails with MissingField, and the field it names is one
\* that was never observed; a document in which nothing was observed, as
\* <root></root>, fails with MissingField for the currency.
C3_MissingField == [][C3_Step]_vars

\* every element closed, currency, resolution and start observed, no end instant
C3_Witness ==
    /\ pc = "done"
    /\ WellFormed
    /\ result = Err("MissingField", "period end")

\* the input ends with the four summary fields observed and no sample accumulated
C4_EmptyAtEof ==
    /\ pc = "scan"
    /\ readerState' = "eof"
    /\ IsSome(currency) /\ IsSome(resolution)
    /\ IsSome(period_start) /\ IsSome(period_end)
    /\ all_points = << >>

\* C4 as stated: with the four summary fields supplied and no usable sample, decode
\* fails with a failure of a kind of its own, EmptyResult, which is neither the kind
\* of a syntax error (XmlParseError) nor MissingField.
C4_EmptyResultKind ==
    [][C4_EmptyAtEof /\ stack = << >> =>
          /\ result'.kind \notin {"Ok", "Running"}
          /\ result'.kind \notin {"XmlParseError", "MissingField"}]_vars

\* C4 (amended): with the four summary fields supplied and no usable sample, decode
\* fails with XmlParseError("No price points found"): the kind of a syntax error,
\* told apart from one by its message only, and not MissingField; no document.
C4_EmptyIsXmlParseError ==
    [][C4_EmptyAtEof =>
          /\ result' = Err("XmlParseError", "No price points found")
          /\ result'.kind # "MissingField"
          /\ result'.doc = None]_vars

\* a decode that failed for want of samples
C4_Witness ==
    /\ pc = "done"
    /\ WellFormed
    /\ result = Err("XmlParseError", "No price points found")

\* C5: once the reader has reported an error the scan has stopped and decode has
\* returned XmlParseError with no document, never MissingField or the outcome of
\* the sample check, whatever had been read before.
C5_SyntaxErrorDominates ==
    readerState = "error" =>
        /\ pc = "done"
        /\ result = Err("XmlParseError", "XML parsing error")
        /\ result.doc = None

\* the error came inside a Point of a Period whose start instant had been read
C5_Witness ==
    /\ readerState = "error"
    /\ stack = <<"TimeSeries", "Period", "Point">>
    /\ IsSome(period_anchor)

\* C6: decode is all-or-nothing: while it runs nothing is handed out; when it has
\* returned the result is a failure without a document, or a document with
\* currency, resolution, period_start and period_end set and prices non-empty.
C6_AllOrNothing ==
    /\ pc = "scan" => result = Running
    /\ pc = "done" =>
        \/ /\ result.kind \in {"XmlParseError", "MissingField"}
           /\ result.doc = None
        \/ /\ result.kind = "Ok"
           /\ Len(result.doc) = 1
           /\ Doc.currency \in {"EUR", "SEK"}
           /\ Doc.resolution \in {"PT15M", "PT60M"}
           /\ Doc.period_start \in Int
           /\ Doc.period_end \in Int
           /\ Len(Doc.prices) > 0

\* a decoded document with as many samples as the bound allows
C6_Witness ==
    /\ Decoded
    /\ WellFormed
    /\ Len(Doc.prices) = MaxPoints

\* C7 as stated: every decoded document has period_start < period_end.
C7_PeriodOrdered == Decoded /\ WellFormed => Doc.period_start < Doc.period_end

----------------------------------------------------------------------------
(* Properties of the analyzer, under SpecAnalyzer *)

\* the total of the count prices from index from (from 0), summed directly
RECURSIVE WindowTotal(_, _)
WindowTotal(from, count) ==
    IF count = 0 THEN 0 ELSE periods[from + 1] + WindowTotal(from + 1, count - 1)

\* the start indices of the windows of n samples
WindowStarts == 0..(Len(periods) - n)

Returned(fn) == an_pc = "returned" /\ call = fn

ValidWindow == periods # << >> /\ 1 <= n /\ n <= Len(periods)

\* C8: for a non-empty sequence and 1 <= n <= length the cheapest search returns
\* Some((index, sum)) with index + n <= length, sum the total of the samples
\* index..index+n-1 and sum <= the total of every window of n samples; prices
\* [5,1,2,8,3] with n = 2 give (1, 3).
C8_CheapestIsMinimum ==
    Returned("cheapest") /\ ValidWindow =>
        /\ IsSome(an_result)
        /\ Unwrap(an_result)[1] \in WindowStarts
        /\ Unwrap(an_result)[2] = WindowTotal(Unwrap(an_result)[1], n)
        /\ \A w \in WindowStarts : Unwrap(an_result)[2] <= WindowTotal(w, n)
        /\ periods = ExamplePrices /\ n = 2 => an_result = Some(<<1, 3>>)

\* the cheapest search has returned for the worked example
C8_Witness == Returned("cheapest") /\ periods = ExamplePrices /\ n = 2

\* C9: for a non-empty sequence and 1 <= n <= length the priciest search returns
\* Some((index, sum)) with index + n <= length, sum the total of the samples
\* index..index+n-1 and sum >= the total of every window of n samples; prices
\* [5,1,2,8,3] with n = 2 give (3, 11).
C9_ExpensivestIsMaximum ==
    Returned("expensivest") /\ ValidWindow =>
        /\ IsSome(an_result)
        /\ Unwrap(an_result)[1] \in WindowStarts
        /\ Unwrap(an_result)[2] = WindowTotal(Unwrap(an_result)[1], n)
        /\ \A w \in WindowStarts : Unwrap(an_result)[2] >= WindowTotal(w, n)
        /\ periods = ExamplePrices /\ n = 2 => an_result = Some(<<3, 11>>)

\* the priciest search has returned for the worked example
C9_Witness == Returned("expensivest") /\ periods = ExamplePrices /\ n = 2

\* C10: with n above the sequence length, an empty sequence or n = 0 both searches
\* return None; a result they return is the total of exactly n samples.
C10_RefusesShortInput ==
    an_pc = "returned" =>
        /\ (n > Len(periods) \/ periods = << >> \/ n = 0) => an_result = None
        /\ IsSome(an_result) =>
               /\ n >= 1
               /\ Unwrap(an_result)[1] + n <= Len(periods)
               /\ Unwrap(an_result)[2] = WindowTotal(Unwrap(an_result)[1], n)

\* a search over a sequence shorter than the window has returned None
C10_Witness ==
    /\ an_pc = "returned"
    /\ periods # << >>
    /\ n = Len(periods) + 1
    /\ an_result = None

\* the start indices of the windows whose total is the returned sum
TiedStarts == {w \in WindowStarts : WindowTotal(w, n) = Unwrap(an_result)[2]}

\* C11: when several windows of n samples share the extremal total, both searches
\* return the smallest start index among them: no window that starts before the
\* returned index has a total equal to the returned sum.
C11_EarliestWins ==
    an_pc = "returned" /\ IsSome(an_result) =>
        /\ Unwrap(an_result)[1] \in TiedStarts
        /\ \A w \in TiedStarts : Unwrap(an_result)[1] <= w

\* the cheapest search has returned with a later window of the same total
C11_Witness ==
    /\ Returned("cheapest")
    /\ IsSome(an_result)
    /\ \E w \in TiedStarts : w > Unwrap(an_result)[1]

----------------------------------------------------------------------------
(* Properties of the decoder against the record of the document, under      *)
(* SpecTraced                                                               *)

\* the first currency text the document has shown in a TimeSeries
FirstCurrency == IF seen_currencies = << >> THEN None ELSE Some(seen_currencies[1])

\* C12: the currency is the first non-blank currency_Unit.name text read inside a
\* TimeSeries: during the scan and in the decoded document it is the first such
\* text, whatever texts follow it, and a text outside every TimeSeries is not taken.
C12_FirstCurrencyWins ==
    watched = "currency" =>
        /\ pc = "scan" => currency = FirstCurrency
        /\ Decoded => Some(Doc.currency) = FirstCurrency

\* a decoded document that names EUR and after it SEK
C12_Witness ==
    /\ Decoded
    /\ WellFormed
    /\ seen_currencies = <<"EUR", "SEK">>
    /\ Doc.currency = "EUR"

\* the first of the codes that is PT15M or PT60M
RECURSIVE FirstRecognized(_)
FirstRecognized(codes) ==
    IF codes = << >> THEN None
    ELSE IF codes[1] \in {"PT15M", "PT60M"} THEN Some(codes[1])
    ELSE FirstRecognized(Tail(codes))

\* C13: the resolution is the first resolution text inside a Period that is PT15M
\* or PT60M: other codes read before it leave the resolution unset and the scan
\* running, no later resolution text changes it, and decode reports the resolution
\* missing only when the document has shown no recognized code.
C13_FirstResolutionWins ==
    watched = "resolution" =>
        /\ pc = "scan" => resolution = FirstRecognized(seen_resolutions)
        /\ Decoded => Some(Doc.resolution) = FirstRecognized(seen_resolutions)
        /\ result = Err("MissingField", "resolution") =>
               FirstRecognized(seen_resolutions) = None

\* a decoded document that shows PT30M, then PT60M, then PT15M
C13_Witness ==
    /\ Decoded
    /\ WellFormed
    /\ seen_resolutions = <<"PT30M", "PT60M", "PT15M">>
    /\ Doc.resolution = "PT60M"

\* the least and the greatest instant of a set, None for the empty set
Earliest(set) ==
    IF set = {} THEN None ELSE Some(CHOOSE x \in set : \A y \in set : x <= y)
Latest(set) ==
    IF set = {} THEN None ELSE Some(CHOOSE x \in set : \A y \in set : x >= y)

C14_Step ==
    watched = "interval" =>
        /\ pc' = "scan" =>
               /\ period_start' = Earliest(seen_starts')
               /\ period_end' = Latest(seen_ends')
        /\ (pc = "scan" /\ result'.kind = "Ok") =>
               /\ Some(result'.doc[1].period_start) = Earliest(seen_starts)
               /\ Some(result'.doc[1].period_end) = Latest(seen_ends)
        /\ (pc' = "scan" /\ IsSome(period_start)) =>
               IsSome(period_start') /\ Unwrap(period_start') <= Unwrap(period_start)
        /\ (pc' = "scan" /\ IsSome(period_end)) =>
               IsSome(period_end') /\ Unwrap(period_end') >= Unwrap(period_end)

\* C14: period_start is the least of the start instants and period_end the greatest
\* of the end instants that parsed in the time intervals of all Periods, in whatever
\* order they came: so it is after every step of the scan and in the decoded
\* document, and during the scan period_start never increases and period_end never
\* decreases.
C14_RunningExtrema == [][C14_Step]_vars

\* a decoded document whose last Period starts at 00:00, before an earlier start at
\* 01:00, and whose end instants are 00:00 and 01:00
C14_Witness ==
    /\ Decoded
    /\ WellFormed
    /\ seen_starts = {0, 60}
    /\ seen_ends = {0, 60}
    /\ period_anchor = Some(0)
    /\ Doc.period_start = 0
    /\ Doc.period_end = 60

\* the samples the complete Points of the document stand for
C15_Expected ==
    [k \in 1..Len(complete_points) |->
        [timestamp |-> complete_points[k].start
                       + (complete_points[k].position - 1) * C2_Minutes(Doc.resolution),
         price |-> complete_points[k].price]]

----------------------------------------------------------------------------
(* Properties of concurrent calls, under SpecConcurrent *)

PcOf(c) == IF c = active THEN pc ELSE parked[c].pc
ResultOf(c) == IF c = active THEN result ELSE parked[c].result
PosOf(c) == IF c = active THEN pos ELSE parked[c].pos

\* what a call returns for each buffer when no other call runs
Alone(name) ==
    CASE name = "hourly" ->
             Ok([currency |-> "EUR", resolution |-> "PT60M", period_start |-> 0,
                 period_end |-> 60, prices |-> <<[timestamp |-> 0, price |-> 1]>>])
      [] name = "quarterly" ->
             Ok([currency |-> "SEK", resolution |-> "PT15M", period_start |-> 60,
                 period_end |-> 60, prices |-> <<[timestamp |-> 75, price |-> 1]>>])
      [] name = "broken" -> Err("XmlParseError", "XML parsing error")
      [] name = "bare" -> Err("MissingField", "currency_Unit.name")
      [] name = "revised" ->
             Ok([currency |-> "EUR", resolution |-> "PT60M", period_start |-> 0,
                 period_end |-> 120, prices |-> <<[timestamp |-> 0, price |-> 1],
                                                  [timestamp |-> 60, price |-> 2]>>])
      [] name = "mixed" ->
             Ok([currency |-> "EUR", resolution |-> "PT15M", period_start |-> 0,
                 period_end |-> 120, prices |-> <<[timestamp |-> 15, price |-> 1],
                                                  [timestamp |-> 75, price |-> 2]>>])
      [] name = "late" ->
             Ok([currency |-> "EUR", resolution |-> "PT15M", period_start |-> 0,
                 period_end |-> 60, prices |-> <<[timestamp |-> 15, price |-> 1]>>])

\* C16: calls of parse_day_ahead_prices that run concurrently on buffers of their own
\* share no state: however their event-processing steps interleave, each call
\* returns what it returns for its buffer when it runs alone.
C16_CallsIndependent ==
    \A c \in Calls : PcOf(c) = "done" => ResultOf(c) = Alone(buffers[c])

\* call a has returned its document while call b is halfway through another buffer
C16_Witness ==
    /\ buffers = [c \in Calls |-> IF c = "a" THEN "hourly" ELSE "quarterly"]
    /\ PcOf("a") = "done"
    /\ ResultOf("a").kind = "Ok"
    /\ PcOf("b") = "scan"
    /\ PosOf("b") = Len(Documents.quarterly) \div 2

----------------------------------------------------------------------------
(* Properties of repeated analyzer calls, under SpecRepeated *)

\* the window a search has to return, found by comparing all windows: the first
\* window whose total no other window beats
BestWindow(fn) ==
    CHOOSE w \in WindowStarts :
        /\ \A v \in WindowStarts :
               IF fn = "cheapest" THEN WindowTotal(w, n) <= WindowTotal(v, n)
               ELSE WindowTotal(w, n) >= WindowTotal(v, n)
        /\ \A v \in WindowStarts : v < w => WindowTotal(v, n) # WindowTotal(w, n)

\* what one call of the function alone returns for periods and n
SingleCallResult(fn) ==
    IF ValidWindow THEN Some(<<BestWindow(fn), WindowTotal(BestWindow(fn), n)>>)
    ELSE None

C17_Step ==
    /\ periods' = periods
    /\ an_pc' = "returned" => an_result' = SingleCallResult(call)'

\* C17: the searches are pure: no step of a call changes the sequence it was given,
\* and however many calls came before, with whatever window lengths and in whatever
\* order, a call returns for its sequence and n what a single call returns.
C17_AnalyzerPure == [][C17_Step]_vars

\* the third call on the worked example has returned
C17_Witness ==
    /\ calls_made = MaxCalls
    /\ Returned("cheapest")
    /\ periods = ExamplePrices
    /\ n = 2
    /\ an_result = Some(<<1, 3>>)

----------------------------------------------------------------------------
(* Termination, under SpecFinite *)

----------------------------------------------------------------------------
(* Properties of the client, under SpecClient *)

\* C19: called with period_start >= period_end, fetch_day_ahead_prices returns
\* InvalidTimeRange with no URL built and no request sent, and get_day_ahead_prices
\* returns that error without the parser having been called.
C19_InvalidRangeRefused ==
    (client.pc # "idle" /\ client.period_start >= client.period_end) =>
        /\ client.pc \in {"check", "returned"}
        /\ client.url = None
        /\ client.requests = 0
        /\ ~client.parsed
        /\ client.pc = "returned" => client.outcome = "InvalidTimeRange"

\* get_day_ahead_prices has returned for a range whose end is its start
C19_Witness ==
    /\ client.pc = "returned"
    /\ client.entry = "get"
    /\ client.period_start = client.period_end
    /\ client.outcome = "InvalidTimeRange"

----------------------------------------------------------------------------
(* Properties of the store, under SpecStore *)

\* the document and the zone of the last call
Stored == Unwrap(last_stored)

\* C20: storing a document for a zone again leaves the table as the first store
\* left it and returns the same: after every store_prices call, the same call once
\* more changes nothing; and the table never holds two rows with one
\* (timestamp, price_area).
C20_StoreIdempotent ==
    /\ IsSome(last_stored) =>
           /\ StoreFrom(table, Stored.zone, Stored.doc, 1).table = table
           /\ StoreFrom(table, Stored.zone, Stored.doc, 1).result = store_result
    /\ \A r1 \in table, r2 \in table : Key(r1) = Key(r2) => r1 = r2

\* a document whose second row failed was stored into a table that held another
\* price for the timestamp of its first row, and rows of the other zone
C20_Witness ==
    /\ IsSome(last_stored)
    /\ store_result = "Err"
    /\ Len(Stored.doc.prices) = MaxRows
    /\ Row(Stored.zone, Stored.doc, Stored.doc.prices[1]) \in table
    /\ Stored.doc.prices[1].timestamp # Stored.doc.prices[MaxRows].timestamp
    /\ {r.price_area : r \in table} = Zones

----------------------------------------------------------------------------
(* Properties of the functions of the library, under SpecLibrary *)

\* the string is the code of the zone as code() gives it, in lower or in upper case
IsCodeOf(str, z) == str \in {Code(z), ToLowercase(Code(z)), ToUppercase(Code(z))}

FromCodeReturned == library.fn = "from_code"

\* C21 as stated: from_code of the code of a zone, as code() gives it or in lower or
\* upper case, is that zone; from_code of a string that is the code of no zone is
\* None; Display of a zone is its code.
C21_OnlyZoneCodes ==
    /\ FromCodeReturned =>
           /\ \A z \in BiddingZones :
                  IsCodeOf(library.arg.str, z) => library.ret = Some(z)
           /\ (\A z \in BiddingZones : ~IsCodeOf(library.arg.str, z)) =>
                  library.ret = None
    /\ library.fn = "display" => library.ret = Code(library.arg.name)

\* the strings besides the codes that from_code takes: ITNORTH in any case, and what
\* to_uppercase turns into a code
C21_AlsoTaken(str, z) ==
    \/ z = "ITNorth" /\ ToUppercase(str) = <<"I", "T", "N", "O", "R", "T", "H">>
    \/ ToUppercase(str) = ToUppercase(Code(z))

\* C21 (amended): from_code of the code of a zone, in any case, is that zone; it is
\* a zone only for a string whose upper-case form is the upper-case code of that
\* zone or, for ITNorth, ITNORTH, and None for every other string; Display of a
\* zone is its code.
C21_ZoneCodeRoundTrip ==
    /\ FromCodeReturned =>
           /\ \A z \in BiddingZones :
                  IsCodeOf(library.arg.str, z) => library.ret = Some(z)
           /\ \A z \in BiddingZones :
                  library.ret = Some(z) <=> C21_AlsoTaken(library.arg.str, z)
           /\ library.ret = None \/ \E z \in BiddingZones : library.ret = Some(z)
    /\ library.fn = "display" => library.ret = Code(library.arg.name)
    /\ library.fn = "code" => FromCode(library.ret) = Some(library.arg.name)

\* from_code has returned ITNorth for its code in lower case
C21_Witness ==
    /\ FromCodeReturned
    /\ library.arg.str = <<"i", "t", "-", "n", "o", "r", "t", "h">>
    /\ library.ret = Some("ITNorth")

\* C22: Resolution::parse gives PT15M for the string "PT15M" and only for it, PT60M
\* for "PT60M" and only for it, and no value for every other string, also for these
\* codes in lower case or with a space around them; minutes() is 15 for PT15M and 60
\* for PT60M.
C22_ResolutionParseExact ==
    /\ library.fn = "parse" =>
           /\ library.ret = Some("PT15M") <=> library.arg.name = "PT15M"
           /\ library.ret = Some("PT60M") <=> library.arg.name = "PT60M"
           /\ library.arg.name \notin {"PT15M", "PT60M"} => library.ret = None
    /\ library.fn = "minutes" =>
           /\ library.arg.name = "PT15M" => library.ret = Some(15)
           /\ library.arg.name = "PT60M" => library.ret = Some(60)

\* parse has returned no value for pt15m
C22_Witness ==
    /\ library.fn = "parse"
    /\ library.arg.name = "pt15m"
    /\ library.ret = None

\* the text of the same instant with the seconds field ":00" written out
WithSecondsWritten(t) == [t EXCEPT !.secs = TRUE]

\* C23: the text of a start or end instant without a seconds field is read as the
\* same UTC instant as the same text with the seconds ":00" written before its
\* timezone designator, whether the designator is "Z" or a numeric offset.
C23_SecondsNormalized ==
    (library.fn \in {"start", "end"} /\ ~library.arg.text.secs) =>
        /\ IsSome(library.ret)
        /\ library.ret = ParseRfc3339Utc(WithSecondsWritten(library.arg.text))

----------------------------------------------------------------------------
(* Properties of the decoder on freely nested documents, under SpecNested *)

\* C24: at every step of the scan the context flags stand for one of the states
\* Outside, InTimeSeries, InPeriod, InPoint, InTimeInterval: inside-Point implies
\* inside-Period, inside-timeInterval implies inside-Period and inside-Period
\* implies inside-TimeSeries, for every well-formed nesting of the elements, also
\* when TimeSeries, Period or Point are repeated or nested in themselves.
C24_FlagsFormFiveStates ==
    pc = "scan" =>
        /\ in_point => in_period
        /\ in_time_interval => in_period
        /\ in_period => in_time_series

\* a sample is accumulated in this step
Pushed == pc = "scan" /\ Len(all_points') > Len(all_points)

C25_Step ==
    /\ Pushed =>
           /\ open_periods # << >>
           /\ all_points'[Len(all_points')].start \in open_periods[Len(open_periods)]
    /\ (stack' = Append(stack, "Period") /\ in_time_series) =>
           current_period_start' = None

\* C25: the anchor of a sample is a start instant read inside the Period that
\* encloses its Point: the anchor is cleared when a Period begins, and a Point
\* closed in a Period in which no start instant has parsed adds no sample, so no
\* sample takes the anchor of an earlier Period.
C25_AnchorOfOwnPeriod == [][C25_Step]_vars

----------------------------------------------------------------------------
(* Properties of the decoder on documents with an element put in, under     *)
(* SpecInserted                                                             *)

\* C26: an element of a name the decoder does not know, with or without children
\* or attributes, put in anywhere in a document leaves the result of the decode as
\* it is for the document without it: the same document or the same failure.
C26_UnknownElementsIgnored ==
    pc = "done" => result = Alone(buffers[active])

----------------------------------------------------------------------------
(* Properties of the decoder on documents with elements out of place, under *)
(* SpecMisplaced                                                            *)

\* the element path[k] is out of place among the elements open around it: a Point
\* not inside a Period, a Period or a currency not inside a TimeSeries, a start or an
\* end not inside the timeInterval of a Period
OutOfPlace(path, k) ==
    \/ /\ path[k] = "Point"
       /\ \A j \in 1..(k - 1) : path[j] # "Period"
    \/ /\ path[k] \in {"Period", "currency_Unit.name"}
       /\ \A j \in 1..(k - 1) : path[j] # "TimeSeries"
    \/ /\ path[k] \in {"start", "end"}
       /\ ~\E j \in 1..(k - 1) :
              /\ path[j] = "timeInterval"
              /\ \E m \in 1..(j - 1) : path[m] = "Period"

\* an element out of place is open, the innermost or around it
Misplaced(path) == \E k \in 1..Len(path) : OutOfPlace(path, k)

\* what the decoder has accumulated
accumulated == <<currency, resolution, period_start, period_end, current_period_start,
                 all_points>>

C27_Step ==
    (pc = "scan" /\ readerState' = "open" /\ (Misplaced(stack) \/ Misplaced(stack'))) =>
        /\ accumulated' = accumulated \/ result' = Err("XmlParseError", "Invalid UTF-8")
        /\ result' \in {Running, Err("XmlParseError", "Invalid UTF-8")}

\* C27: an element out of place is passed over, not refused: the start tag, the
\* texts and the end tag of a Point outside every Period, of a Period or a currency
\* outside every TimeSeries and of a start or end instant outside the timeInterval
\* of a Period leave currency, resolution, period_start, period_end, the anchor and
\* the sample list as they are, and the scan goes on; it ends at such a text only
\* when the text is not UTF-8, as at any text.
C27_IllegalNestingIgnored == [][C27_Step]_vars

\* a child of a Point that stands in a TimeSeries outside every Period has been
\* closed, after a Period whose start instant was read and with a sample accumulated
C27_Witness ==
    /\ pc = "scan"
    /\ stack = <<"TimeSeries", "Point">>
    /\ current_tag = ""
    /\ IsSome(current_period_start)
    /\ Len(all_points) = 1

----------------------------------------------------------------------------
(* Properties of the decoder on a document and on the same document with    *)
(* its Periods in the other order, under SpecReordered                      *)

\* both calls have returned a document
BothDecoded ==
    \A c \in Calls : PcOf(c) = "done" /\ ResultOf(c).kind = "Ok"

PricesOf(c) == ResultOf(c).doc[1].prices

\* the resolution codes a document shows
ResolutionCodes(doc) ==
    {doc[k + 1].text.str : k \in PlacesOf(doc, StartTag("resolution"))}

\* no two samples of the list share a timestamp
NoRepeatedTimestamps(prices) ==
    \A j, k \in 1..Len(prices) : prices[j].timestamp = prices[k].timestamp => j = k

\* C28 as stated: documents that differ only in the order of their Period groups and
\* have no repeated timestamps decode to the same prices list.
C28_OrderOfGroupsIrrelevant ==
    (/\ BothDecoded
     /\ NoRepeatedTimestamps(PricesOf("a"))
     /\ NoRepeatedTimestamps(PricesOf("b"))) => PricesOf("a") = PricesOf("b")

\* the timestamps of the list are in non-decreasing order
Ascending(prices) ==
    \A k \in 1..(Len(prices) - 1) : prices[k].timestamp <= prices[k + 1].timestamp

C28_Step ==
    /\ (pc = "scan" /\ active' = active /\ result'.kind = "Ok") =>
           /\ Len(result'.doc[1].prices) = Len(all_points)
           /\ SameBag(result'.doc[1].prices, C2_Expected)
           /\ Ascending(result'.doc[1].prices)
    /\ (/\ BothDecoded'
        /\ NoRepeatedTimestamps(PricesOf("a"))'
        /\ Cardinality(ResolutionCodes(Documents[buffers["a"]])) = 1) =>
           PricesOf("a")' = PricesOf("b")'

\* C28 (amended): finalization only reorders: the returned prices list holds the
\* samples emitted during the scan, each as often, none added or lost, in
\* non-decreasing timestamp order; so documents that differ only in the order of
\* their Period groups, whose Periods all carry one resolution code and which have
\* no repeated timestamps, decode to the same prices list.
C28_FinalizationOnlyReorders == [][C28_Step]_vars

\* both orders of the document whose later Period comes first have been decoded
C28_Witness ==
    /\ BothDecoded
    /\ buffers["a"] = "revised"
    /\ Len(PricesOf("a")) = 2
    /\ PricesOf("b") = PricesOf("a")
    /\ PricesOf("a")[1].price # PricesOf("a")[2].price

----------------------------------------------------------------------------
(* The loop of the analyzer against a recomputation of every window, under  *)
(* SpecAnalyzer                                                             *)

\* whether total a is strictly better than total b for the search fn
NaiveBetter(fn, a, b) == IF fn = "cheapest" THEN a < b ELSE a > b

\* every window start 0..last recomputed directly: the earliest start whose total no
\* other start betters
NaiveIndex(fn, last) ==
    CHOOSE w \in 0..last :
        /\ \A v \in 0..last : ~NaiveBetter(fn, WindowTotal(v, n), WindowTotal(w, n))
        /\ \A v \in 0..(w - 1) : WindowTotal(v, n) # WindowTotal(w, n)

\* the pair a recomputation over the window starts 0..last gives
Naive(fn, last) == <<NaiveIndex(fn, last), WindowTotal(NaiveIndex(fn, last), n)>>

\* an iteration of the loop: the update at index i
LoopUpdate == an_pc = "loop" /\ an_pc' = "loop" /\ i' = i + 1

C29_Step ==
    /\ LoopUpdate =>
           /\ n <= i /\ i < Len(periods)
           /\ current_sum' = WindowTotal(i - n + 1, n)
           /\ <<best_index', best_sum'>> = Naive(call, i - n + 1)
    /\ (an_pc = "loop" /\ an_pc' = "returned") =>
           an_result' = Some(Naive(call, Len(periods) - n))

\* C29: in both searches, after the update at loop index i (n <= i < length) the
\* running sum is the direct sum of the samples i-n+1..i and the best index and sum
\* are the extremum over the windows that start at 0..i-n+1; the result is that of
\* a recomputation of every window.
C29_SlidingSumInvariant == [][C29_Step]_vars

\* the priciest search has made at least two updates and holds a best window that
\* is neither the first nor the last one seen
C29_Witness ==
    /\ an_pc = "loop"
    /\ call = "expensivest"
    /\ i >= n + 2
    /\ 0 < best_index /\ best_index < i - n
    /\ current_sum # best_sum

----------------------------------------------------------------------------
(* The timestamps of a decoded document against its period, under Spec *)

\* the timestamp finalization gives the accumulated sample p (lines 162-163)
TimestampOf(p) == Timestamp(p.start, p.position, Unwrap(resolution))

\* the step that returns the document (lines 159-176)
C30_Step ==
    (pc = "scan" /\ result'.kind = "Ok" /\ Unwrap(period_start) < Unwrap(period_end)) =>
        /\ \A k \in 1..Len(all_points) :
               /\ all_points[k].start <= TimestampOf(all_points[k])
               /\ Unwrap(period_start) <= TimestampOf(all_points[k])
               /\ TimestampOf(all_points[k]) < Unwrap(period_end)
        /\ \A k \in 1..Len(result'.doc[1].prices) :
               /\ result'.doc[1].period_start <= result'.doc[1].prices[k].timestamp
               /\ result'.doc[1].prices[k].timestamp < result'.doc[1].period_end

\* C30 as stated: every price timestamp t of a decoded document has
\* period_start <= t < period_end and is not earlier than the anchor of the Period
\* its Point belongs to, for every position the decoder accepts; stated of the
\* documents whose period_start is before their period_end.
C30_TimestampsInsidePeriod == [][C30_Step]_vars

----------------------------------------------------------------------------
(* The resolution of the timestamps against the document, under              *)
(* SpecConcurrent                                                           *)

\* the resolution codes a document shows, in document order
RECURSIVE CodesShown(_)
CodesShown(doc) ==
    IF Len(doc) < 2 THEN << >>
    ELSE IF doc[1] = StartTag("resolution") /\ doc[2].type = "text"
         THEN <<doc[2].text.str>> \o CodesShown(Tail(doc))
         ELSE CodesShown(Tail(doc))

\* the samples the accumulated Points stand for when each spans the given minutes
SamplesAt(minutes) ==
    [k \in 1..Len(all_points) |->
        [timestamp |-> all_points[k].start + (all_points[k].position - 1) * minutes,
         price |-> all_points[k].price]]

C31_Step ==
    /\ (pc = "scan" /\ active' = active /\ Len(all_points') > Len(all_points)) =>
           DOMAIN all_points'[Len(all_points')] = {"start", "position", "price"}
    /\ (pc = "scan" /\ active' = active /\ result'.kind = "Ok") =>
           /\ IsSome(FirstRecognized(CodesShown(Buffer)))
           /\ result'.doc[1].resolution = Unwrap(FirstRecognized(CodesShown(Buffer)))
           /\ SameBag(result'.doc[1].prices,
                      SamplesAt(C2_Minutes(Unwrap(FirstRecognized(CodesShown(Buffer))))))

\* C31: timestamps are computed only at finalization, with the single resolution of
\* the document, the first recognized one: an accumulated sample holds anchor,
\* position and price, and every sample of the result has timestamp anchor +
\* (position - 1) * the minutes of that resolution, also the samples of Points that
\* precede the resolution element and those of Periods whose own code differs.
C31_SingleResolutionForAll == [][C31_Step]_vars

\* call a has decoded the document whose second Period shows PT60M after the first
\* showed PT15M, call b the document whose Point precedes its resolution element
C31_Witness ==
    /\ buffers = [c \in Calls |-> IF c = "a" THEN "mixed" ELSE "late"]
    /\ BothDecoded
    /\ CodesShown(Documents.mixed) = <<"PT15M", "PT60M">>
    /\ PricesOf("a") = <<[timestamp |-> 15, price |-> 1], [timestamp |-> 75, price |-> 2]>>
    /\ PricesOf("b") = <<[timestamp |-> 15, price |-> 1]>>

----------------------------------------------------------------------------
(* Timestamp reconstruction at full width, under SpecLibrary *)

\* C32 as stated: for every position that parses as a u32 (0 through 4294967295),
\* either resolution and every anchor, (position - 1) * minutes added to the anchor
\* is a valid instant: the computation returns and does not end the process.
C32_ReconstructionNeverAborts ==
    (library.fn = "timestamp" /\ IsSome(ParseU32Text(library.arg.str))) =>
        /\ IsSome(library.ret)
        /\ Unwrap(library.ret).kind = "instant"

----------------------------------------------------------------------------
(* Samples of one timestamp in the table, under SpecStore *)

\* the index of the last sample of the document with the timestamp of sample k
LastWith(prices, k) ==
    CHOOSE j \in k..Len(prices) :
        /\ prices[j].timestamp = prices[k].timestamp
        /\ \A m \in (j + 1)..Len(prices) : prices[m].timestamp # prices[k].timestamp

\* C33 as stated: when a document holds several samples with one timestamp, after
\* store_prices the table row for that (timestamp, zone) holds the price of the
\* sample that came last in the document.
C33_LastSampleInTable ==
    IsSome(last_stored) =>
        \A k \in 1..Len(Stored.doc.prices) :
            LastWith(Stored.doc.prices, k) # k =>
                Row(Stored.zone, Stored.doc,
                    Stored.doc.prices[LastWith(Stored.doc.prices, k)]) \in table

----------------------------------------------------------------------------
(* The accounting of the zone loop, under SpecFetch *)

\* the process has left the loop
LoopEnded == fetch.pc \in {"returned", "panicked"}

\* the prices of the zones whose prices were stored, added up
RECURSIVE StoredTotal(_)
StoredTotal(stored) ==
    IF stored = << >> THEN 0
    ELSE (IF IsSome(stored[1]) THEN Unwrap(stored[1]) ELSE 0) + StoredTotal(Tail(stored))

\* the zones of the list at the places where the loop recorded a failure
FailedPlaces == {k \in 1..Len(fetch.stored) : fetch.stored[k] = None}

\* C34 as stated: every requested zone is attempted exactly once, in list order; a
\* fetch, decode or database failure for one zone is recorded and does not stop the
\* remaining zones; when the loop ends successful_zones + the number of failed
\* zones = the number of requested zones, and total_prices is the sum of
\* prices.len() over the successful zones only.
C34_ZoneLoopAccounting ==
    /\ fetch.pc # "idle" =>
           /\ fetch.attempted = SubSeq(fetch.zones, 1, Len(fetch.attempted))
           /\ fetch.total_prices = StoredTotal(fetch.stored)
    /\ LoopEnded =>
           /\ fetch.attempted = fetch.zones
           /\ fetch.successful_zones + Len(fetch.failed_zones) = Len(fetch.zones)
           /\ Cardinality(FailedPlaces) = Len(fetch.failed_zones)

====
